---- MODULE Spec2Model ----
(***************************************************************************)
(* A model of the file retention refresher: the classification, mutation   *)
(* and reporting engine of file_refresher.py (FileRefresher and main).     *)
(*                                                                         *)
(* File names are sequences of one-character strings, so that the two date *)
(* patterns, Path.suffix and the f-string formatting of the new name are   *)
(* computed character by character, as the code computes them.             *)
(* Time is counted in ticks since the epoch of the model, 2020.01.01 00:00;*)
(* a day has TicksPerDay ticks.                                            *)
(***************************************************************************)
EXTENDS Integers, Sequences, FiniteSets, TLC

VARIABLES
    rename_extensions,  \* self.rename_extensions (lower-cased in __init__)
    days_threshold,     \* self.days_threshold
    now,                \* the wall clock, what datetime.now() returns
    csv_input,          \* args.csv_input: the ledger to replay, NoCsv in directory mode
    arg,                \* a file_info handed to one of the pure methods
    ret,                \* what that method returned
    fs,                 \* the directory tree: path -> the file's id, mtime, mode, size
    dry_run,            \* self.dry_run
    pc,                 \* where main is
    files,              \* the list scan_directory returned
    idx,                \* the position of main's loop in files
    results,            \* main's results list
    errors,             \* self.errors
    faults_left,        \* the system calls that may still fail
    runs_left,          \* the runs of main still to come
    started,            \* the tree and the file list as the run in progress found them
    runs,               \* the runs completed so far, oldest first
    prune               \* file_deletion_tool.py: the keep set, the rows, the trash

cfgVars == <<rename_extensions, days_threshold, csv_input>>
pureVars == <<arg, ret>>
toolVars == <<prune>>
runVars == <<fs, dry_run, pc, files, idx, results, errors, faults_left, runs_left, started, runs>>
vars == <<rename_extensions, days_threshold, csv_input, now, arg, ret, fs, dry_run, pc,
          files, idx, results, errors, faults_left, runs_left, started, runs, prune>>

-----------------------------------------------------------------------------
(* Bounds of the model *)

TicksPerDay == 2
MaxGap == 2
MaxMTime == 1
MaxNow == 2
MaxThreshold == 1
MaxFiles == 2
MaxRuns == 2
MaxFaults == 1

-----------------------------------------------------------------------------
(* Characters and strings *)

SP == " "
TAB == "\t"
NL == "\n"

DigitChars == <<"0", "1", "2", "3", "4", "5", "6", "7", "8", "9">>

\* \d of the patterns
IsDigit(c) == \E i \in 1..Len(DigitChars) : DigitChars[i] = c

\* \s of the patterns: the newline is whitespace too
IsSpace(c) == c \in {SP, TAB, NL}

\* what "." of the patterns matches: anything but a newline (no re.DOTALL)
IsDot(c) == c # NL

\* a run of letters "x", as many as fit in a name that is valid until a date
\* is put in front of it, written as one element of a name (no pattern and no
\* suffix ever splits the run)
XRUN == "x.."

\* str.lower(), one character
LowerChar(c) == CASE c = "P" -> "p"
                  [] c = "Q" -> "q"
                  [] c = "A" -> "a"
                  [] OTHER -> c

\* str.lower()
Lower(s) == [i \in 1..Len(s) |-> LowerChar(s[i])]

\* s[i:] of Python, i counted from 1 here
Tail_from(s, i) == SubSeq(s, i, Len(s))

\* PurePath.suffix: name[i:] for i = name.rfind('.') when 0 < i < len(name) - 1
\* (0-based), the empty string otherwise
Suffix(name) ==
    LET dotsAt == {i \in 1..Len(name) : name[i] = "."}
    IN  IF dotsAt = {} THEN <<>>
        ELSE LET i == CHOOSE j \in dotsAt : \A k \in dotsAt : k <= j
             IN  IF 1 < i /\ i < Len(name) THEN Tail_from(name, i) ELSE <<>>

-----------------------------------------------------------------------------
(* The two date patterns (file_refresher.py lines 58-59) *)

NoMatch == [matched |-> FALSE]

\* (.+)$ applied to what follows the whitespace: "." takes no newline, and "$"
\* matches at the end of the string or just before a newline that ends it
RestOf(r) ==
    LET stops == {i \in 1..Len(r) : ~IsDot(r[i])}
        n == IF stops = {} THEN Len(r)
             ELSE (CHOOSE i \in stops : \A j \in stops : i <= j) - 1
    IN  IF n = 0 THEN NoMatch
        ELSE IF n = Len(r) \/ n = Len(r) - 1
             THEN [matched |-> TRUE, rest |-> SubSeq(r, 1, n)]
             ELSE NoMatch

\* ^(\d{4})SEP(\d{2})SEP(\d{2})\s+(.+)$ under re.match: \s+ is greedy and gives
\* characters back until (.+)$ matches
MatchPattern(sep, name) ==
    IF Len(name) < 11 THEN NoMatch
    ELSE IF ~(/\ \A i \in {1, 2, 3, 4, 6, 7, 9, 10} : IsDigit(name[i])
              /\ name[5] = sep /\ name[8] = sep)
    THEN NoMatch
    ELSE LET ks == {k \in 1..(Len(name) - 10) :
                       /\ \A i \in 11..(10 + k) : IsSpace(name[i])
                       /\ RestOf(Tail_from(name, 11 + k)).matched}
         IN  IF ks = {} THEN NoMatch
             ELSE LET k == CHOOSE x \in ks : \A y \in ks : y <= x
                  IN  [matched |-> TRUE,
                       year |-> SubSeq(name, 1, 4),
                       month |-> SubSeq(name, 6, 7),
                       day |-> SubSeq(name, 9, 10),
                       rest |-> RestOf(Tail_from(name, 11 + k)).rest]

date_pattern_dots(name) == MatchPattern(".", name)

date_pattern_hyphens(name) == MatchPattern("-", name)

-----------------------------------------------------------------------------
(* Dates *)

\* two decimal digits, zero padded (%m, %d)
TwoDigits(n) == <<DigitChars[(n \div 10) + 1], DigitChars[(n % 10) + 1]>>

\* datetime.strftime('%Y.%m.%d') of a time in ticks: the days of the model all
\* fall in January 2020
Strftime(t) == <<"2", "0", "2", "0", ".", "0", "1", ".">> \o TwoDigits((t \div TicksPerDay) + 1)

-----------------------------------------------------------------------------
(* The classifier and the filename transform *)

\* a file_info as scan_directory builds it (lines 443-448)
FileInfo(path, size, modified) ==
    [path |-> path, size |-> size, modified |-> modified,
     extension |-> Lower(Suffix(path.name))]

\* the comparison made inclusive
needs_date_update_inclusive(file_info) ==
    LET age_threshold == now - days_threshold * TicksPerDay
    IN  file_info.modified <= age_threshold

needs_date_update(file_info) ==
    LET age_threshold == now - days_threshold * TicksPerDay
    IN  file_info.modified < age_threshold

\* the extension test left out
needs_rename_any_extension(file_info) ==
    LET filename == file_info.path.name
    IN  IF date_pattern_dots(filename).matched
        THEN [rename |-> FALSE, reason |-> "already_has_dots"]
        ELSE IF date_pattern_hyphens(filename).matched
        THEN [rename |-> TRUE, reason |-> "convert_hyphens"]
        ELSE [rename |-> TRUE, reason |-> "add_date"]

\* the dotted test left out
needs_rename_no_dots_test(file_info) ==
    IF file_info.extension \notin rename_extensions
    THEN [rename |-> FALSE, reason |-> "None"]
    ELSE IF date_pattern_hyphens(file_info.path.name).matched
    THEN [rename |-> TRUE, reason |-> "convert_hyphens"]
    ELSE [rename |-> TRUE, reason |-> "add_date"]

needs_rename(file_info) ==
    IF file_info.extension \notin rename_extensions
    THEN [rename |-> FALSE, reason |-> "None"]
    ELSE LET filename == file_info.path.name
         IN  IF date_pattern_dots(filename).matched
             THEN [rename |-> FALSE, reason |-> "already_has_dots"]
             ELSE IF date_pattern_hyphens(filename).matched
             THEN [rename |-> TRUE, reason |-> "convert_hyphens"]
             ELSE [rename |-> TRUE, reason |-> "add_date"]

\* the two hyphens swapped for dots and nothing else touched
get_new_filename_swap_only(file_info, rename_reason) ==
    LET filename == file_info.path.name
        match == date_pattern_hyphens(filename)
    IN  IF rename_reason = "convert_hyphens"
        THEN IF match.matched
             THEN [i \in 1..Len(filename) |-> IF i \in {5, 8} THEN "." ELSE filename[i]]
             ELSE filename
        ELSE IF rename_reason = "add_date"
        THEN Strftime(file_info.modified) \o <<SP>> \o filename
        ELSE filename

\* the blank between the date and the rest left out
get_new_filename_no_blank(file_info, rename_reason) ==
    LET filename == file_info.path.name
        match == date_pattern_hyphens(filename)
    IN  IF rename_reason = "convert_hyphens"
        THEN IF match.matched
             THEN match.year \o <<".">> \o match.month \o <<".">> \o match.day
                      \o match.rest
             ELSE filename
        ELSE IF rename_reason = "add_date"
        THEN Strftime(file_info.modified) \o <<SP>> \o filename
        ELSE filename

\* the prefix taken from the clock instead of the file
get_new_filename_today(file_info, rename_reason) ==
    LET filename == file_info.path.name
        match == date_pattern_hyphens(filename)
    IN  IF rename_reason = "convert_hyphens"
        THEN IF match.matched
             THEN match.year \o <<".">> \o match.month \o <<".">> \o match.day
                      \o <<SP>> \o match.rest
             ELSE filename
        ELSE IF rename_reason = "add_date"
        THEN Strftime(now) \o <<SP>> \o filename
        ELSE filename

get_new_filename(file_info, rename_reason) ==
    LET filename == file_info.path.name
        match == date_pattern_hyphens(filename)
    IN  IF rename_reason = "convert_hyphens"
        THEN IF match.matched
             THEN match.year \o <<".">> \o match.month \o <<".">> \o match.day
                      \o <<SP>> \o match.rest
             ELSE filename
        ELSE IF rename_reason = "add_date"
        THEN Strftime(file_info.modified) \o <<SP>> \o filename
        ELSE filename

-----------------------------------------------------------------------------
(* The inputs of the classifier and of the transform *)

Seqs(S, n) == UNION {[1..k -> S] : k \in 0..n}

HyphenDate == <<"2", "0", "2", "0", "-", "0", "1", "-", "0", "1">>
DottedDate == <<"2", "0", "2", "0", ".", "0", "1", ".", "0", "1">>
MixedDate == <<"2", "0", "2", "0", "-", "0", "1", ".", "0", "1">>

Prefixes == {<<>>, HyphenDate, DottedDate, MixedDate}

Gaps == Seqs({SP, TAB, NL}, MaxGap)

Bodies == {<<>>, <<"a">>, <<"a", ".", "P">>, <<"a", ".", "q">>,
           <<"a", NL, "b", ".", "P">>, <<"a", ".", "P", NL>>}

PureNames == {p \o g \o b : p \in Prefixes, g \in Gaps, b \in Bodies} \ {<<>>}

\* the rename_extensions lists of the configuration file, before __init__
\* lower-cases them (line 47)
ConfigExtensions == {{}, {<<".", "P">>}, {<<".", "p">>, <<".", "q">>}}

Reasons == {"None", "already_has_dots", "convert_hyphens", "add_date"}

Path(parent, name) == [parent |-> parent, name |-> name]

NoArg == [path |-> Path("top", <<>>)]
NoRet == [op |-> "none"]
NoFs == [p \in {} |-> 0]
NoPrune == [nt |-> FALSE, keep |-> {}, keep_names |-> {}, deleted_rows |-> <<>>,
            total_files |-> 0, moved_files |-> 0, trash |-> {},
            report |-> [written |-> FALSE, rows |-> <<>>]]
NoCsv == [missing |-> {}, rows |-> <<>>, given |-> FALSE]

InitPure ==
    /\ \E raw \in ConfigExtensions : rename_extensions = {Lower(e) : e \in raw}
    /\ days_threshold \in 0..MaxThreshold
    /\ now \in 0..MaxNow
    /\ \E name \in PureNames, m \in 0..MaxMTime :
           arg = FileInfo(Path("top", name), 1, m)
    /\ ret = NoRet
    /\ fs = NoFs
    /\ dry_run = FALSE
    /\ pc = "pure"
    /\ files = <<>>
    /\ idx = 1
    /\ results = <<>>
    /\ errors = <<>>
    /\ faults_left = 0
    /\ runs_left = 0
    /\ started = [fs |-> NoFs, files |-> <<>>]
    /\ csv_input = NoCsv
    /\ prune = NoPrune
    /\ runs = <<>>

CallNeedsRename ==
    /\ pc = "pure"
    /\ ret' = [op |-> "needs_rename", value |-> needs_rename(arg)]
    /\ UNCHANGED <<toolVars, cfgVars, now, arg, runVars>>

CallNeedsDateUpdate ==
    /\ pc = "pure"
    /\ ret' = [op |-> "needs_date_update", value |-> needs_date_update(arg)]
    /\ UNCHANGED <<toolVars, cfgVars, now, arg, runVars>>

CallGetNewFilename ==
    /\ pc = "pure"
    /\ \E reason \in Reasons :
           ret' = [op |-> "get_new_filename", reason |-> reason,
                   value |-> get_new_filename(arg, reason)]
    /\ UNCHANGED <<toolVars, cfgVars, now, arg, runVars>>

NextPure == CallNeedsRename \/ CallNeedsDateUpdate \/ CallGetNewFilename

SpecPure == InitPure /\ [][NextPure]_vars

-----------------------------------------------------------------------------
(* Paths and the directory tree *)

\* Path.resolve(): main scans '.', so the paths of a scan are relative to the
\* working directory; the tree fs is keyed by absolute paths
Abs(parent) == CASE parent = "." -> "/cwd"
                 [] parent = "./sub" -> "/cwd/sub"
                 [] OTHER -> parent

Resolve(path) == Path(Abs(path.parent), path.name)

\* Path.exists()
Exists(fsys, path) == Resolve(path) \in DOMAIN fsys

\* an entry of the tree that is a symbolic link holds the path it points to,
\* which in the trees of the model is a file of the tree that no run renames
IsLink(fsys, p) == p \in DOMAIN fsys /\ "link" \in DOMAIN fsys[p]

\* what Path.resolve() makes of an absolute path: the path a symbolic link
\* points to, and the path itself when it is no link or does not exist
Follow(fsys, p) == IF IsLink(fsys, p) THEN fsys[p].link ELSE p

\* the tree with the file at path src moved to path dst (os.rename)
Renamed(fsys, src, dst) ==
    [q \in (DOMAIN fsys \ {Resolve(src)}) \cup {Resolve(dst)} |->
        IF q = Resolve(dst) THEN fsys[Resolve(src)] ELSE fsys[q]]

\* the outcomes of the system calls of one process_file: whether Path.exists
\* raises ENAMETOOLONG on a name the filesystem cannot hold (it does up to
\* Python 3.11 and returns False from 3.12 on), and how rename, the two chmod
\* and utime end
IOs == [exists_raises : BOOLEAN,
        rename : {"ok", "PermissionError", "OSError"},
        chmod : {"ok", "Exception"},
        utime : {"ok", "PermissionError", "Exception"},
        restore : {"ok", "Exception"}]

\* the outcomes in which at most n system calls fail
IOsWithin ==
    [n \in 0..MaxFaults |->
        {io \in IOs : Cardinality({k \in {"rename", "chmod", "utime", "restore"} :
                                       io[k] # "ok"}) <= n}]

NoPath == [parent |-> "", name |-> <<>>]

Error(msg, path) == [msg |-> msg, path |-> path]

-----------------------------------------------------------------------------
(* The mutation executor *)

MaxNameLen == 255

\* the letters of the run XRUN
RunLen == MaxNameLen - 9

\* len() of a name
StrLen(s) == Len(s) + (RunLen - 1) * Cardinality({i \in 1..Len(s) : s[i] = XRUN})

\* the test for an existing target left out: os.rename replaces the target
rename_file_no_exists_test(fsys, errs, file_path, new_name, io) ==
    LET new_path == Path(file_path.parent, new_name)
        none(e, n) == [fs |-> fsys, errors |-> Append(errs, e), ret |-> NoPath,
                       faults |-> n]
    IN  IF StrLen(new_name) > MaxNameLen
        THEN none(Error("Filename too long", file_path), 0)
        ELSE IF ~Exists(fsys, file_path)
        THEN none(Error("OS error renaming", file_path), 0)
        ELSE IF io.rename = "PermissionError"
        THEN none(Error("Permission denied renaming", file_path), 1)
        ELSE IF io.rename = "OSError"
        THEN none(Error("OS error renaming", file_path), 1)
        ELSE [fs |-> Renamed(fsys, file_path, new_path), errors |-> errs,
              ret |-> new_path, faults |-> 0]

\* the length test left out and the name taken for one the filesystem holds
rename_file_no_length_test(fsys, errs, file_path, new_name, io) ==
    LET new_path == Path(file_path.parent, new_name)
        none(e, n) == [fs |-> fsys, errors |-> Append(errs, e), ret |-> NoPath,
                       faults |-> n]
    IN  IF Exists(fsys, new_path)
        THEN IF file_path.name = new_name
             THEN [fs |-> fsys, errors |-> errs, ret |-> new_path, faults |-> 0]
             ELSE none(Error("Target file already exists", new_path), 0)
        ELSE IF ~Exists(fsys, file_path)
        THEN none(Error("OS error renaming", file_path), 0)
        ELSE IF io.rename = "PermissionError"
        THEN none(Error("Permission denied renaming", file_path), 1)
        ELSE IF io.rename = "OSError"
        THEN none(Error("OS error renaming", file_path), 1)
        ELSE [fs |-> Renamed(fsys, file_path, new_path), errors |-> errs,
              ret |-> new_path, faults |-> 0]

\* a failed os.rename taken for a success: the new path is returned all the same
rename_file_reports_success(fsys, errs, file_path, new_name, io) ==
    LET new_path == Path(file_path.parent, new_name)
        none(e, n) == [fs |-> fsys, errors |-> Append(errs, e), ret |-> NoPath,
                       faults |-> n]
        kept(e, n) == [fs |-> fsys, errors |-> Append(errs, e), ret |-> new_path,
                       faults |-> n]
    IN  IF StrLen(new_name) > MaxNameLen /\ io.exists_raises
        THEN none(Error("OS error renaming", file_path), 0)
        ELSE IF Exists(fsys, new_path)
        THEN IF file_path.name = new_name
             THEN [fs |-> fsys, errors |-> errs, ret |-> new_path, faults |-> 0]
             ELSE none(Error("Target file already exists", new_path), 0)
        ELSE IF StrLen(new_name) > MaxNameLen
        THEN none(Error("Filename too long", file_path), 0)
        ELSE IF ~Exists(fsys, file_path)
        THEN none(Error("OS error renaming", file_path), 0)
        ELSE IF io.rename = "PermissionError"
        THEN kept(Error("Permission denied renaming", file_path), 1)
        ELSE IF io.rename = "OSError"
        THEN kept(Error("OS error renaming", file_path), 1)
        ELSE [fs |-> Renamed(fsys, file_path, new_path), errors |-> errs,
              ret |-> new_path, faults |-> 0]

\* rename_file (lines 608-663): the tree, the error list and the returned
\* path (NoPath for None); faults counts the system calls that failed
rename_file(fsys, errs, file_path, new_name, io) ==
    LET new_path == Path(file_path.parent, new_name)
        none(e, n) == [fs |-> fsys, errors |-> Append(errs, e), ret |-> NoPath,
                       faults |-> n]
    IN  IF StrLen(new_name) > MaxNameLen /\ io.exists_raises
        THEN none(Error("OS error renaming", file_path), 0)
        ELSE IF Exists(fsys, new_path)
        THEN IF file_path.name = new_name
             THEN [fs |-> fsys, errors |-> errs, ret |-> new_path, faults |-> 0]
             ELSE none(Error("Target file already exists", new_path), 0)
        ELSE IF StrLen(new_name) > MaxNameLen
        THEN none(Error("Filename too long", file_path), 0)
        ELSE IF ~Exists(fsys, file_path)
        THEN none(Error("OS error renaming", file_path), 0)
        ELSE IF io.rename = "PermissionError"
        THEN none(Error("Permission denied renaming", file_path), 1)
        ELSE IF io.rename = "OSError"
        THEN none(Error("OS error renaming", file_path), 1)
        ELSE [fs |-> Renamed(fsys, file_path, new_path), errors |-> errs,
              ret |-> new_path, faults |-> 0]

\* a failed os.utime not recorded: False is returned and nothing appended
update_file_modified_date_unrecorded(fsys, errs, file_path, t, io) ==
    LET p == Resolve(file_path)
        fail(f, e, n) == [fs |-> f, errors |-> Append(errs, e), ret |-> FALSE,
                          faults |-> n]
        utime(f, granted) ==
            IF io.utime # "ok"
            THEN [fs |-> f, errors |-> errs, ret |-> FALSE, faults |-> 1]
            ELSE LET touched == [f EXCEPT ![p].mtime = t]
                 IN  IF granted /\ io.restore = "ok"
                     THEN [fs |-> [touched EXCEPT ![p].w = FALSE], errors |-> errs,
                           ret |-> TRUE, faults |-> 0]
                     ELSE [fs |-> touched, errors |-> errs, ret |-> TRUE,
                           faults |-> IF granted THEN 1 ELSE 0]
    IN  IF ~Exists(fsys, file_path)
        THEN fail(fsys, Error("Cannot modify read-only file", file_path), 0)
        ELSE IF ~fsys[p].w
        THEN IF io.chmod = "Exception"
             THEN fail(fsys, Error("Cannot modify read-only file", file_path), 1)
             ELSE utime([fsys EXCEPT ![p].w = TRUE], TRUE)
        ELSE utime(fsys, FALSE)

\* update_file_modified_date (lines 558-606) at time t
update_file_modified_date(fsys, errs, file_path, t, io) ==
    LET p == Resolve(file_path)
        fail(f, e, n) == [fs |-> f, errors |-> Append(errs, e), ret |-> FALSE,
                          faults |-> n]
        utime(f, granted) ==
            IF io.utime = "PermissionError"
            THEN fail(f, Error("Permission denied updating", file_path), 1)
            ELSE IF io.utime = "Exception"
            THEN fail(f, Error("Error updating date for", file_path), 1)
            ELSE LET touched == [f EXCEPT ![p].mtime = t]
                 IN  IF granted /\ io.restore = "ok"
                     THEN [fs |-> [touched EXCEPT ![p].w = FALSE], errors |-> errs,
                           ret |-> TRUE, faults |-> 0]
                     ELSE [fs |-> touched, errors |-> errs, ret |-> TRUE,
                           faults |-> IF granted THEN 1 ELSE 0]
    IN  IF ~Exists(fsys, file_path)
        THEN fail(fsys, Error("Cannot modify read-only file", file_path), 0)
        ELSE IF ~fsys[p].w
        THEN IF io.chmod = "Exception"
             THEN fail(fsys, Error("Cannot modify read-only file", file_path), 1)
             ELSE utime([fsys EXCEPT ![p].w = TRUE], TRUE)
        ELSE utime(fsys, FALSE)

\* str.replace('.', '')
WithoutDots(s) == SelectSeq(s, LAMBDA c : c # ".")

\* the date step left out when the rename step recorded an error
process_file_date_after_rename_only(fsys, errs, file_info, dry, io) ==
    LET start == [result |-> [original_path |-> Follow(fsys, Resolve(file_info.path)),
                              new_path |-> Follow(fsys, Resolve(file_info.path)),
                              original_modified |-> file_info.modified,
                              new_modified |-> file_info.modified,
                              extension |-> WithoutDots(file_info.extension),
                              size_bytes |-> file_info.size,
                              renamed |-> FALSE,
                              date_updated |-> FALSE],
                  fs |-> fsys, errors |-> errs, file_info |-> file_info, faults |-> 0]
        \* lines 678-695, rn being what rename_file returns
        rename_step(s, decision, new_filename, rn) ==
            IF ~decision.rename
            THEN s
            ELSE IF dry
            THEN [s EXCEPT !.result.new_path =
                               Follow(fsys, Resolve(Path(file_info.path.parent,
                                                         new_filename))),
                           !.result.renamed = TRUE]
            ELSE IF rn.ret # NoPath
            THEN [s EXCEPT !.result.new_path = Follow(rn.fs, Resolve(rn.ret)),
                           !.result.renamed = TRUE,
                           !.file_info.path = Follow(rn.fs, Resolve(rn.ret)),
                           !.fs = rn.fs, !.errors = rn.errors, !.faults = rn.faults]
            ELSE [s EXCEPT !.fs = rn.fs, !.errors = rn.errors, !.faults = rn.faults]
        renaming(decision, new_filename) ==
            rename_step(start, decision, new_filename,
                        rename_file(fsys, errs, file_info.path, new_filename, io))
        \* lines 697-708, up being what update_file_modified_date returns
        date_step(s1, up) ==
            IF ~needs_date_update(s1.file_info) \/ s1.errors # errs
            THEN s1
            ELSE IF dry
            THEN [s1 EXCEPT !.result.new_modified = now, !.result.date_updated = TRUE]
            ELSE IF up.ret
            THEN [s1 EXCEPT !.result.new_modified = now, !.result.date_updated = TRUE,
                            !.fs = up.fs, !.errors = up.errors,
                            !.faults = s1.faults + up.faults]
            ELSE [s1 EXCEPT !.fs = up.fs, !.errors = up.errors,
                            !.faults = s1.faults + up.faults]
        dating(s1) ==
            date_step(s1, update_file_modified_date(s1.fs, s1.errors, s1.result.new_path,
                                                    now, io))
        deciding(decision) ==
            renaming(decision, get_new_filename(file_info, decision.reason))
    IN  dating(deciding(needs_rename(file_info)))

\* process_file (lines 665-710): the result, the tree, the error
\* list and the file_info, whose path the rename updates in place
process_file(fsys, errs, file_info, dry, io) ==
    LET start == [result |-> [original_path |-> Follow(fsys, Resolve(file_info.path)),
                              new_path |-> Follow(fsys, Resolve(file_info.path)),
                              original_modified |-> file_info.modified,
                              new_modified |-> file_info.modified,
                              extension |-> WithoutDots(file_info.extension),
                              size_bytes |-> file_info.size,
                              renamed |-> FALSE,
                              date_updated |-> FALSE],
                  fs |-> fsys, errors |-> errs, file_info |-> file_info, faults |-> 0]
        \* lines 678-695, rn being what rename_file returns
        rename_step(s, decision, new_filename, rn) ==
            IF ~decision.rename
            THEN s
            ELSE IF dry
            THEN [s EXCEPT !.result.new_path =
                               Follow(fsys, Resolve(Path(file_info.path.parent,
                                                         new_filename))),
                           !.result.renamed = TRUE]
            ELSE IF rn.ret # NoPath
            THEN [s EXCEPT !.result.new_path = Follow(rn.fs, Resolve(rn.ret)),
                           !.result.renamed = TRUE,
                           !.file_info.path = Follow(rn.fs, Resolve(rn.ret)),
                           !.fs = rn.fs, !.errors = rn.errors, !.faults = rn.faults]
            ELSE [s EXCEPT !.fs = rn.fs, !.errors = rn.errors, !.faults = rn.faults]
        renaming(decision, new_filename) ==
            rename_step(start, decision, new_filename,
                        rename_file(fsys, errs, file_info.path, new_filename, io))
        \* lines 697-708, up being what update_file_modified_date returns
        date_step(s1, up) ==
            IF ~needs_date_update(s1.file_info)
            THEN s1
            ELSE IF dry
            THEN [s1 EXCEPT !.result.new_modified = now, !.result.date_updated = TRUE]
            ELSE IF up.ret
            THEN [s1 EXCEPT !.result.new_modified = now, !.result.date_updated = TRUE,
                            !.fs = up.fs, !.errors = up.errors,
                            !.faults = s1.faults + up.faults]
            ELSE [s1 EXCEPT !.fs = up.fs, !.errors = up.errors,
                            !.faults = s1.faults + up.faults]
        dating(s1) ==
            date_step(s1, update_file_modified_date(s1.fs, s1.errors, s1.result.new_path,
                                                    now, io))
        deciding(decision) ==
            renaming(decision, get_new_filename(file_info, decision.reason))
    IN  dating(deciding(needs_rename(file_info)))

-----------------------------------------------------------------------------
(* A run of main in directory mode, without the interactive UI *)

\* a name whose dated form is longer than the filesystem allows
LongName == <<XRUN, ".", "P">>

\* the files a tree may hold when the first run starts
RunPaths ==
    {Path("/cwd", n) : n \in {<<"a", ".", "P">>,
                              HyphenDate \o <<SP, "a", ".", "P">>,
                              DottedDate \o <<SP, "a", ".", "P">>,
                              <<"a", NL, "b", ".", "P">>,
                              <<"r", ".", "c", "s", "v">>,
                              <<"file_refresh_report_">> \o DottedDate
                                  \o <<".", "c", "s", "v">>,
                              LongName}}
    \cup {Path("/cwd/sub", HyphenDate \o <<SP, "a", ".", "P">>)}

\* what tells one file's content from another's
FileId(path) == <<path.parent, path.name>>

Perms(S) == {f \in [1..Cardinality(S) -> S] : \A i, j \in DOMAIN f : f[i] = f[j] => i = j}

\* the path glob yields for a file of the tree when the scan starts at '.'
Rel(path) == Path(IF path.parent = "/cwd" THEN "." ELSE "./sub", path.name)

\* scan_directory (lines 419-452): the files of the tree in the order of the
\* walk, the CSV files left out
scan_directory(fsys, order) ==
    LET kept == SelectSeq(order, LAMBDA q : Lower(Suffix(q.name)) # <<".", "c", "s", "v">>)
        stat(q) == fsys[Follow(fsys, q)]
    IN  [i \in 1..Len(kept) |-> FileInfo(Rel(kept[i]), stat(kept[i]).size, stat(kept[i]).mtime)]

\* a tree of at most MaxFiles files, none of them modified after the first
\* run starts, and a configuration
InitTree ==
    /\ \E raw \in {{}, {<<".", "P">>}} : rename_extensions = {Lower(e) : e \in raw}
    /\ days_threshold \in 0..MaxThreshold
    /\ now = MaxMTime
    /\ arg = NoArg
    /\ ret = NoRet
    /\ \E S \in SUBSET RunPaths :
          /\ Cardinality(S) <= MaxFiles
          /\ \E m \in [S -> 0..MaxMTime], w \in [S -> BOOLEAN] :
                 fs = [q \in S |-> [id |-> FileId(q), mtime |-> m[q], w |-> w[q],
                                    size |-> StrLen(q.name)]]
    /\ dry_run = FALSE
    /\ pc = "idle"
    /\ files = <<>>
    /\ idx = 1
    /\ results = <<>>
    /\ errors = <<>>
    /\ started = [fs |-> NoFs, files |-> <<>>]
    /\ csv_input = NoCsv
    /\ prune = NoPrune
    /\ runs = <<>>

\* one run of main, in which system calls may fail
Init ==
    /\ InitTree
    /\ runs_left = 1
    /\ faults_left = MaxFaults

\* MaxRuns runs of main in succession, in which no system call fails
InitPasses ==
    /\ InitTree
    /\ runs_left = MaxRuns
    /\ faults_left = 0

\* main up to the loop (lines 984-1058): a new FileRefresher, dry_run from the
\* command line, no ledger given (line 1037), the scan
StartRun ==
    /\ pc = "idle"
    /\ runs_left > 0
    /\ ~csv_input.given
    /\ runs_left' = runs_left - 1
    /\ \E d \in BOOLEAN, order \in Perms(DOMAIN fs) :
          /\ dry_run' = d
          /\ files' = scan_directory(fs, order)
          /\ started' = [fs |-> fs, files |-> files']
    /\ idx' = 1
    /\ results' = <<>>
    /\ errors' = <<>>
    /\ pc' = "loop"
    /\ UNCHANGED <<toolVars, cfgVars, now, pureVars, fs, faults_left, runs>>

\* the loop with dry_run ignored
ProcessNextIgnoringDryRun ==
    LET turn(out) ==
            /\ out.faults <= faults_left
            /\ faults_left' = faults_left - out.faults
            /\ fs' = out.fs
            /\ errors' = out.errors
            /\ files' = [files EXCEPT ![idx] = out.file_info]
            /\ results' = Append(results, out.result)
    IN  /\ pc = "loop"
        /\ idx <= Len(files)
        /\ \E io \in IOsWithin[faults_left] :
               turn(process_file(fs, errors, files[idx], FALSE, io))
        /\ idx' = idx + 1
        /\ UNCHANGED <<toolVars, cfgVars, now, pureVars, dry_run, pc, runs_left, started, runs>>

\* the loop dropping the result of a file that recorded an error
ProcessNextDroppingFailures ==
    LET turn(out) ==
            /\ out.faults <= faults_left
            /\ faults_left' = faults_left - out.faults
            /\ fs' = out.fs
            /\ errors' = out.errors
            /\ files' = [files EXCEPT ![idx] = out.file_info]
            /\ results' = IF out.errors = errors THEN Append(results, out.result)
                            ELSE results
    IN  /\ pc = "loop"
        /\ idx <= Len(files)
        /\ \E io \in IOsWithin[faults_left] :
               turn(process_file(fs, errors, files[idx], dry_run, io))
        /\ idx' = idx + 1
        /\ UNCHANGED <<toolVars, cfgVars, now, pureVars, dry_run, pc, runs_left, started, runs>>

\* one turn of main's loop (lines 1059-1061)
ProcessNext ==
    LET turn(out) ==
            /\ out.faults <= faults_left
            /\ faults_left' = faults_left - out.faults
            /\ fs' = out.fs
            /\ errors' = out.errors
            /\ files' = [files EXCEPT ![idx] = out.file_info]
            /\ results' = Append(results, out.result)
    IN  /\ pc = "loop"
        /\ idx <= Len(files)
        /\ \E io \in IOsWithin[faults_left] :
               turn(process_file(fs, errors, files[idx], dry_run, io))
        /\ idx' = idx + 1
        /\ UNCHANGED <<toolVars, cfgVars, now, pureVars, dry_run, pc, runs_left, started, runs>>

\* the default filename_pattern of the report (line 716), the date filled in
ReportStem == "file_refresh_report_"
report_filename(date_part) == <<ReportStem>> \o date_part \o <<".", "c", "s", "v">>

\* the name tried for a counter (lines 730, 735-738): the date alone at first,
\* then the date, a dot and the counter in two digits
versioned_filename(date_str, counter) ==
    IF counter = 0 THEN report_filename(date_str)
    ELSE report_filename(date_str \o <<".">> \o TwoDigits(counter))

\* strftime('%Y-%m-%d %H:%M:%S') (lines 755-756)
FormatStamp(t) ==
    <<"2", "0", "2", "0", "-", "0", "1", "-">> \o TwoDigits((t \div TicksPerDay) + 1)
        \o <<SP>> \o TwoDigits((t % TicksPerDay) * (24 \div TicksPerDay))
        \o <<":", "0", "0", ":", "0", "0">>

\* str() of a size
RECURSIVE IntText(_)
IntText(n) == IF n < 10 THEN <<DigitChars[n + 1]>>
              ELSE IntText(n \div 10) \o <<DigitChars[(n % 10) + 1]>>

\* the rows generate_csv_report writes after the header (lines 753-764)
report_rows(rows) ==
    [i \in 1..Len(rows) |->
        [new_path |-> rows[i].new_path,
         original_modified |-> FormatStamp(rows[i].original_modified),
         new_modified |-> FormatStamp(rows[i].new_modified),
         extension |-> rows[i].extension,
         size_bytes |-> IntText(rows[i].size_bytes)]]

ReportOutcomes == {"ok", "open_fails", "write_fails"}

\* the report always written under the name of the day, no counter tried
generate_csv_report_base_name(fsys, errs, rows, t, outcome) ==
    LET written(q) == [id |-> FileId(q), mtime |-> t, w |-> TRUE, size |-> Len(rows)]
        write(report_path) ==
            CASE outcome = "ok" ->
                   [fs |-> (report_path :> written(report_path)) @@ fsys,
                    errors |-> errs, ret |-> report_path, faults |-> 0,
                    content |-> report_rows(rows)]
              [] outcome = "open_fails" ->
                   [fs |-> fsys, ret |-> NoPath, faults |-> 1, content |-> <<>>,
                    errors |-> Append(errs, Error("Error generating CSV report", report_path))]
              [] OTHER ->
                   [fs |-> (report_path :> written(report_path)) @@ fsys,
                    ret |-> NoPath, faults |-> 1, content |-> <<>>,
                    errors |-> Append(errs, Error("Error generating CSV report", report_path))]
    IN  write(Resolve(Path(".", versioned_filename(Strftime(t), 0))))

\* generate_csv_report (lines 712-775) at time t: the first report name of the
\* day that is free, the date alone and then the date with a two-digit
\* counter; the file is written unless open fails, and an exception while
\* opening or writing is recorded and None returned
generate_csv_report(fsys, errs, rows, t, outcome) ==
    LET least(free) == CHOOSE c \in free : \A d \in free : c <= d
        counter(date_str) ==
            least({c \in 0..(Cardinality(DOMAIN fsys) + 1) :
                       ~Exists(fsys, Path(".", versioned_filename(date_str, c)))})
        named(date_str, c) == Path(".", versioned_filename(date_str, c))
        written(q) == [id |-> FileId(q), mtime |-> t, w |-> TRUE, size |-> Len(rows)]
        write(report_path) ==
            CASE outcome = "ok" ->
                   [fs |-> (report_path :> written(report_path)) @@ fsys,
                    errors |-> errs, ret |-> report_path, faults |-> 0,
                    content |-> report_rows(rows)]
              [] outcome = "open_fails" ->
                   [fs |-> fsys, ret |-> NoPath, faults |-> 1, content |-> <<>>,
                    errors |-> Append(errs, Error("Error generating CSV report", report_path))]
              [] OTHER ->
                   [fs |-> (report_path :> written(report_path)) @@ fsys,
                    ret |-> NoPath, faults |-> 1, content |-> <<>>,
                    errors |-> Append(errs, Error("Error generating CSV report", report_path))]
        versioned(date_str) == write(Resolve(named(date_str, counter(date_str))))
    IN  versioned(Strftime(t))

\* the end of main (lines 1063-1082): the report and the summary
GenerateReport ==
    LET finish(out) ==
            /\ out.faults <= faults_left
            /\ faults_left' = faults_left - out.faults
            /\ fs' = out.fs
            /\ errors' = out.errors
            /\ runs' = Append(runs, [dry_run |-> dry_run, before |-> started.fs,
                                     scanned |-> started.files, results |-> results,
                                     errors |-> out.errors, at |-> now, after |-> out.fs,
                                     report |-> out.ret, ledger |-> out.content])
    IN  /\ pc = "loop"
        /\ idx > Len(files)
        /\ \E outcome \in ReportOutcomes :
               finish(generate_csv_report(fs, errors, results, now, outcome))
        /\ pc' = "idle"
        /\ UNCHANGED <<toolVars, cfgVars, now, pureVars, dry_run, files, idx, results,
                       runs_left, started>>

\* the wall clock advances; a tick is half a day and a run is taken to last
\* less than that, so every datetime.now() of one run reads the same tick
Tick ==
    /\ pc = "idle"
    /\ now < MaxNow
    /\ now' = now + 1
    /\ UNCHANGED <<toolVars, cfgVars, pureVars, runVars>>

Next == StartRun \/ ProcessNext \/ GenerateReport \/ Tick

Spec == Init /\ [][Next]_vars

SpecPasses == InitPasses /\ [][Next]_vars

-----------------------------------------------------------------------------
(* A run of main cut short by Ctrl-C *)

\* the places of process_file at which a KeyboardInterrupt may leave it, by
\* what the turn has done to the tree so far
InterruptPoints == {"before", "after_rename", "after_grant", "after_utime", "after_restore"}

\* process_file (lines 665-710) left at the point at by a KeyboardInterrupt,
\* which none of the handlers of rename_file and update_file_modified_date
\* catches: the tree and the error list as they are then
process_file_interrupted(fsys, errs, file_info, dry, io, at) ==
    LET date_part(f, e, target) ==
            LET stale == ~dry /\ needs_date_update(file_info) /\ target \in DOMAIN f
                grant == stale /\ ~f[target].w /\ io.chmod = "ok"
                set == stale /\ (f[target].w \/ grant) /\ io.utime = "ok"
                back == grant /\ set /\ io.restore = "ok"
                w(old) == IF at = "after_rename" THEN old
                          ELSE IF at = "after_restore" THEN old \/ (grant /\ ~back)
                          ELSE old \/ grant
                mtime(old) == IF set /\ at \in {"after_utime", "after_restore"}
                              THEN now ELSE old
            IN  [fs |-> [q \in DOMAIN f |->
                            IF q = target
                            THEN [f[q] EXCEPT !.w = w(@), !.mtime = mtime(@)]
                            ELSE f[q]],
                 errors |-> e]
        after(rn) ==
            date_part(rn.fs, rn.errors,
                      IF rn.ret # NoPath THEN Follow(rn.fs, Resolve(rn.ret))
                      ELSE Follow(fsys, Resolve(file_info.path)))
        rename_part(decision) ==
            IF decision.rename /\ ~dry
            THEN after(rename_file(fsys, errs, file_info.path,
                                   get_new_filename(file_info, decision.reason), io))
            ELSE date_part(fsys, errs, Follow(fsys, Resolve(file_info.path)))
    IN  IF at = "before" THEN [fs |-> fsys, errors |-> errs]
        ELSE rename_part(needs_rename(file_info))

\* the interrupt undoing what the run has done
InterruptRollingBack ==
    /\ pc = "loop"
    /\ idx <= Len(files)
    /\ fs' = started.fs
    /\ pc' = "cancelled"
    /\ UNCHANGED <<toolVars, cfgVars, now, pureVars, dry_run, files, idx, results, errors,
                   faults_left, runs_left, started, runs>>

\* Ctrl-C while the loop of main is at a file (lines 1059-1061): the
\* KeyboardInterrupt leaves process_file at some point, main's handler
\* prints 'Operation cancelled by user' and exits with status 1 (lines
\* 1084-1089); no report is generated
Interrupt ==
    LET cancel(out) ==
            /\ fs' = out.fs
            /\ errors' = out.errors
    IN  /\ pc = "loop"
        /\ idx <= Len(files)
        /\ \E io \in IOsWithin[faults_left], at \in InterruptPoints :
               cancel(process_file_interrupted(fs, errors, files[idx], dry_run, io, at))
        /\ pc' = "cancelled"
        /\ UNCHANGED <<toolVars, cfgVars, now, pureVars, dry_run, files, idx, results,
                       faults_left, runs_left, started, runs>>

NextInterrupt == StartRun \/ ProcessNext \/ GenerateReport \/ Tick \/ Interrupt

SpecInterrupt == Init /\ [][NextInterrupt]_vars

-----------------------------------------------------------------------------
(* rename_file called on its own, and what process_file makes of its return *)

\* lines 691-695 of process_file: any path rename_file returns marks the
\* result renamed
after_rename(fsys, result, new_path) ==
    IF new_path # NoPath
    THEN [result EXCEPT !.new_path = Follow(fsys, Resolve(new_path)), !.renamed = TRUE]
    ELSE result

\* rename_file(arg.path, new_name) on a tree that holds the file, and with it
\* or without it a file at the target; new_name is the file's own name or
\* its name with the date in front
CallRenameFile ==
    /\ pc = "pure"
    /\ \E new_name \in {arg.path.name, get_new_filename(arg, "add_date")},
          taken \in BOOLEAN, io \in IOsWithin[0] :
          LET held == {Resolve(arg.path)}
                          \cup IF taken THEN {Resolve(Path(arg.path.parent, new_name))}
                               ELSE {}
              tree == [q \in held |-> [id |-> FileId(q), mtime |-> arg.modified,
                                       w |-> TRUE, size |-> arg.size]]
              called(rn) ==
                  ret' = [op |-> "rename_file", new_name |-> new_name, tree |-> tree,
                          value |-> rn,
                          result |-> after_rename(rn.fs,
                                                  [original_path |-> Resolve(arg.path),
                                                   new_path |-> Resolve(arg.path),
                                                   renamed |-> FALSE],
                                                  rn.ret)]
          IN  called(rename_file(tree, <<>>, arg.path, new_name, io))
    /\ UNCHANGED <<toolVars, cfgVars, now, arg, runVars>>

SpecRename == InitPure /\ [][CallRenameFile]_vars

-----------------------------------------------------------------------------
(* Replay of a ledger: main with --csv-input *)

MaxRows == 2

\* datetime.strptime(text, '%Y-%m-%d %H:%M:%S') (lines 834-835): a ValueError
\* unless the text is a time in that format
ParseStamp(text) ==
    LET ts == {t \in 0..MaxNow : FormatStamp(t) = text}
    IN  IF ts = {} THEN [ok |-> FALSE]
        ELSE [ok |-> TRUE, value |-> CHOOSE t \in ts : TRUE]

RECURSIVE IntOf(_)
IntOf(s) ==
    IF s = <<>> THEN 0
    ELSE 10 * IntOf(SubSeq(s, 1, Len(s) - 1))
             + (CHOOSE d \in 0..9 : DigitChars[d + 1] = s[Len(s)])

\* int(text) (line 844): a ValueError unless the text is a number
ParseInt(text) ==
    IF text # <<>> /\ \A i \in 1..Len(text) : IsDigit(text[i])
    THEN [ok |-> TRUE, value |-> IntOf(text)]
    ELSE [ok |-> FALSE]

\* the extension of a row with its leading dot (line 846)
dotted_extension(ext) == IF ext # <<>> /\ ext[1] = "." THEN ext ELSE <<".">> \o ext

\* the ledger main is given
CsvPath == Path("/cwd", <<"i", "n", ".", "c", "s", "v">>)

\* the loop of load_csv_file_list (lines 823-850) from row i on: the file
\* list, the errors, and whether an exception left the loop. A column the
\* header lacks is a KeyError, which like the ValueError of int() is caught
\* by the outer handler only
RECURSIVE load_rows(_, _, _, _, _)
load_rows(fsys, csv, i, acc, errs) ==
    LET raised == [files |-> acc, errors |-> errs, raised |-> TRUE]
        has(col) == col \notin csv.missing
        accept(row, om, nm, size) ==
            load_rows(fsys, csv, i + 1,
                      Append(acc, [path |-> row.new_path,
                                   size |-> size.value,
                                   modified |-> om.value,
                                   extension |-> dotted_extension(row.extension),
                                   csv_original_modified |-> om.value,
                                   csv_new_modified |-> nm.value]),
                      errs)
        reject(msg, row) ==
            load_rows(fsys, csv, i + 1, acc, Append(errs, Error(msg, row.new_path)))
        sized(row, om, nm, size) ==
            IF ~size.ok \/ ~has("extension") THEN raised ELSE accept(row, om, nm, size)
        dated(row, om, nm) ==
            IF ~has("original_modified") THEN raised
            ELSE IF ~om.ok THEN reject("Invalid date format in CSV for", row)
            ELSE IF ~has("new_modified") THEN raised
            ELSE IF ~nm.ok THEN reject("Invalid date format in CSV for", row)
            ELSE IF ~has("size_bytes") THEN raised
            ELSE sized(row, om, nm, ParseInt(row.size_bytes))
        one(row) ==
            IF ~has("new_path") THEN raised
            ELSE IF ~Exists(fsys, row.new_path)
            THEN reject("File not found in CSV", row)
            ELSE dated(row, ParseStamp(row.original_modified),
                       ParseStamp(row.new_modified))
    IN  IF i > Len(csv.rows)
        THEN [files |-> acc, errors |-> errs, raised |-> FALSE]
        ELSE one(csv.rows[i])

\* the descriptors given the modification time the file has on disk
load_csv_file_list_disk_mtime(fsys, errs, csv, opened) ==
    LET failed(e, n) == [files |-> <<>>, faults |-> n,
                         errors |-> Append(e, Error("Error loading CSV file", CsvPath))]
        on_disk(fl) == [i \in DOMAIN fl |->
                           [fl[i] EXCEPT !.modified = fsys[Resolve(fl[i].path)].mtime]]
        done(out) == IF out.raised THEN failed(out.errors, 0)
                     ELSE [files |-> on_disk(out.files), errors |-> out.errors,
                           faults |-> 0]
    IN  IF opened # "ok" THEN failed(errs, 1)
        ELSE done(load_rows(fsys, csv, 1, <<>>, errs))

\* load_csv_file_list (lines 815-861): the descriptors of the rows accepted,
\* or the empty list when opening or reading raised
load_csv_file_list(fsys, errs, csv, opened) ==
    LET failed(e, n) == [files |-> <<>>, faults |-> n,
                         errors |-> Append(e, Error("Error loading CSV file", CsvPath))]
        done(out) == IF out.raised THEN failed(out.errors, 0)
                     ELSE [files |-> out.files, errors |-> out.errors, faults |-> 0]
    IN  IF opened # "ok" THEN failed(errs, 1)
        ELSE done(load_rows(fsys, csv, 1, <<>>, errs))

\* the texts a cell of the ledger may hold
BadStamp == Strftime(0)
ReplayNames == {<<"a", ".", "P">>, <<"r", ".", "c", "s", "v">>, <<"g", ".", "P">>}
ReplayRows ==
    [new_path : {Path("/cwd", n) : n \in ReplayNames},
     original_modified : {FormatStamp(0), FormatStamp(MaxMTime), BadStamp},
     new_modified : {FormatStamp(MaxMTime), BadStamp},
     extension : {<<"p">>, <<"c", "s", "v">>},
     size_bytes : {<<"3">>, <<"n">>}]

\* a ledger of at most MaxRows rows, whose header may lack a column, and a
\* tree that holds the ledger, a document and a CSV file
InitReplay ==
    /\ rename_extensions \in {{<<".", "p">>}, {<<".", "p">>, <<".", "c", "s", "v">>}}
    /\ days_threshold = 0
    /\ \E rows \in Seqs(ReplayRows, MaxRows),
          missing \in {{}, {"new_path"}, {"size_bytes"}} :
          csv_input = [missing |-> missing, rows |-> rows, given |-> TRUE]
    /\ now = MaxMTime
    /\ arg = NoArg
    /\ ret = NoRet
    /\ \E m \in 0..MaxMTime :
          fs = [q \in {Path("/cwd", <<"a", ".", "P">>),
                       Path("/cwd", <<"r", ".", "c", "s", "v">>), CsvPath} |->
                   [id |-> FileId(q), mtime |-> m, w |-> TRUE, size |-> StrLen(q.name)]]
    /\ dry_run = FALSE
    /\ pc = "idle"
    /\ files = <<>>
    /\ idx = 1
    /\ results = <<>>
    /\ errors = <<>>
    /\ started = [fs |-> NoFs, files |-> <<>>]
    /\ runs = <<>>
    /\ prune = NoPrune
    /\ runs_left = 1
    /\ faults_left = MaxFaults

\* main in CSV input mode up to the loop (lines 1035-1045): the ledger exists,
\* dry_run from the command line, the load
StartReplay ==
    LET begin(loaded) ==
            /\ loaded.faults <= faults_left
            /\ faults_left' = faults_left - loaded.faults
            /\ files' = loaded.files
            /\ errors' = loaded.errors
            /\ started' = [fs |-> fs, files |-> loaded.files]
    IN  /\ pc = "idle"
        /\ runs_left > 0
        /\ csv_input.given
        /\ Exists(fs, CsvPath)
        /\ runs_left' = runs_left - 1
        /\ \E d \in BOOLEAN, opened \in {"ok", "Exception"} :
               /\ dry_run' = d
               /\ begin(load_csv_file_list(fs, <<>>, csv_input, opened))
        /\ idx' = 1
        /\ results' = <<>>
        /\ pc' = "loop"
        /\ UNCHANGED <<toolVars, cfgVars, now, pureVars, fs, runs>>

NextReplay == StartReplay \/ ProcessNext \/ GenerateReport

SpecReplay == InitReplay /\ [][NextReplay]_vars

\* a tree that holds a symbolic link: the link l.P of the working directory
\* points to a file of the subdirectory whose name is dated already; with
\* them, or not, a document
LinkTarget == Path("/cwd/sub", DottedDate \o <<SP, "a", ".", "P">>)
LinkPath == Path("/cwd", <<"l", ".", "P">>)
LinkTrees ==
    LET plain(q, m, w) == [id |-> FileId(q), mtime |-> m, w |-> w, size |-> StrLen(q.name)]
        doc == Path("/cwd", <<"a", ".", "P">>)
        linked(m, w) == (LinkTarget :> plain(LinkTarget, m, w)) @@ (LinkPath :> [link |-> LinkTarget])
    IN  {linked(m, w) : m \in 0..MaxMTime, w \in BOOLEAN}
        \cup {(doc :> plain(doc, n, v)) @@ linked(m, w) :
                  m \in 0..MaxMTime, w \in BOOLEAN, n \in 0..MaxMTime, v \in BOOLEAN}

\* one run of main over such a tree, in which system calls may fail
InitLinks ==
    /\ rename_extensions \in {{}, {<<".", "p">>}}
    /\ days_threshold \in 0..MaxThreshold
    /\ now = MaxMTime
    /\ arg = NoArg
    /\ ret = NoRet
    /\ fs \in LinkTrees
    /\ dry_run = FALSE
    /\ pc = "idle"
    /\ files = <<>>
    /\ idx = 1
    /\ results = <<>>
    /\ errors = <<>>
    /\ started = [fs |-> NoFs, files |-> <<>>]
    /\ csv_input = NoCsv
    /\ prune = NoPrune
    /\ runs = <<>>
    /\ runs_left = 1
    /\ faults_left = MaxFaults

SpecLinks == InitLinks /\ [][Next]_vars

\* main in either mode: one run over a directory, or one replay of a ledger
InitModes == Init \/ InitReplay

NextModes == StartRun \/ StartReplay \/ ProcessNext \/ GenerateReport

SpecModes == InitModes /\ [][NextModes]_vars

-----------------------------------------------------------------------------
(* A directory run and then a replay of the ledger it wrote *)

\* the files a tree may hold when the first run starts: a document, a file
\* whose name has no extension, and a document with a hyphenated date
LedgerPaths ==
    {Path("/cwd", n) : n \in {<<"a", ".", "P">>, <<"a">>,
                              HyphenDate \o <<SP, "a", ".", "P">>}}

\* two runs of main in succession, in which no system call fails
InitLedger ==
    /\ rename_extensions \in {{}, {<<".", "p">>}}
    /\ days_threshold \in 0..MaxThreshold
    /\ now = MaxMTime
    /\ arg = NoArg
    /\ ret = NoRet
    /\ \E S \in SUBSET LedgerPaths :
          /\ Cardinality(S) <= MaxFiles
          /\ \E m \in [S -> 0..MaxMTime] :
                 fs = [q \in S |-> [id |-> FileId(q), mtime |-> m[q], w |-> TRUE,
                                    size |-> StrLen(q.name)]]
    /\ dry_run = FALSE
    /\ pc = "idle"
    /\ files = <<>>
    /\ idx = 1
    /\ results = <<>>
    /\ errors = <<>>
    /\ started = [fs |-> NoFs, files |-> <<>>]
    /\ csv_input = NoCsv
    /\ prune = NoPrune
    /\ runs = <<>>
    /\ runs_left = MaxRuns
    /\ faults_left = 0

\* main in CSV input mode up to the loop (lines 1035-1045), given the report
\* the run before it wrote
StartLedgerReplay ==
    LET begin(loaded) ==
            /\ files' = loaded.files
            /\ errors' = loaded.errors
            /\ started' = [fs |-> fs, files |-> loaded.files]
        replay(csv) ==
            /\ csv_input' = csv
            /\ begin(load_csv_file_list(fs, <<>>, csv, "ok"))
        last(run) ==
            /\ run.report # NoPath
            /\ Exists(fs, run.report)
            /\ replay([missing |-> {}, rows |-> run.ledger, given |-> TRUE])
    IN  /\ pc = "idle"
        /\ runs_left > 0
        /\ runs # <<>>
        /\ last(runs[Len(runs)])
        /\ runs_left' = runs_left - 1
        /\ dry_run' \in BOOLEAN
        /\ idx' = 1
        /\ results' = <<>>
        /\ pc' = "loop"
        /\ UNCHANGED <<toolVars, rename_extensions, days_threshold, now, pureVars, fs,
                       faults_left, runs>>

NextLedger == StartRun \/ StartLedgerReplay \/ ProcessNext \/ GenerateReport \/ Tick

SpecLedger == InitLedger /\ [][NextLedger]_vars

-----------------------------------------------------------------------------
(* generate_csv_report step by step, for a configured filename_pattern *)

MaxCounter == 6

\* the place of a pattern where str.format puts the date
DatePlaceholder == "{date}"

\* the values of report.filename_pattern in the configuration file: the
\* default, and a fixed name, which holds no placeholder
FilenamePatterns ==
    {<<ReportStem, DatePlaceholder, ".", "c", "s", "v">>,
     <<"r", "e", "p", "o", "r", "t", ".", "c", "s", "v">>}

\* filename_pattern.format(date=date) (lines 717, 737)
RECURSIVE Format(_, _)
Format(filename_pattern, date) ==
    IF filename_pattern = <<>> THEN <<>>
    ELSE (IF Head(filename_pattern) = DatePlaceholder THEN date
          ELSE <<Head(filename_pattern)>>)
             \o Format(Tail(filename_pattern), date)

\* the name tried for a counter (lines 717, 735-737)
TriedName(filename_pattern, date_str, counter) ==
    IF counter = 0 THEN Format(filename_pattern, date_str)
    ELSE Format(filename_pattern, date_str \o <<".">> \o TwoDigits(counter))

\* the reports a directory may hold before the call: for each pattern the
\* names of the day with no counter and with the counters 01 and 02
EarlierReports ==
    {Path("/cwd", TriedName(p, Strftime(t), c)) :
        p \in FilenamePatterns, t \in {0, TicksPerDay}, c \in 0..2}

\* generate_csv_report has been called (lines 714-730): the pattern of the
\* configuration, the counter at 0, the first path to try
InitSearch ==
    /\ rename_extensions = {}
    /\ days_threshold = 0
    /\ now \in {0, TicksPerDay}
    /\ arg = NoArg
    /\ \E p \in FilenamePatterns :
          ret = [op |-> "generate_csv_report", filename_pattern |-> p, counter |-> 0,
                 report_path |-> Path("/cwd", TriedName(p, Strftime(now), 0))]
    /\ \E S \in SUBSET EarlierReports :
          fs = [q \in S |-> [id |-> FileId(q), mtime |-> 0, w |-> TRUE, size |-> 0]]
    /\ dry_run = FALSE
    /\ pc = "report"
    /\ files = <<>>
    /\ idx = 1
    /\ results = <<>>
    /\ errors = <<>>
    /\ started = [fs |-> NoFs, files |-> <<>>]
    /\ csv_input = NoCsv
    /\ prune = NoPrune
    /\ runs = <<>>
    /\ runs_left = 0
    /\ faults_left = MaxFaults

\* one turn of the while loop (lines 733-738): the path tried exists, the
\* counter goes up and the pattern is formatted again
SearchNext ==
    /\ pc = "report"
    /\ ret.op = "generate_csv_report"
    /\ Exists(fs, ret.report_path)
    /\ ret.counter < MaxCounter
    /\ ret' = [ret EXCEPT !.counter = ret.counter + 1,
                          !.report_path = Path("/cwd", TriedName(ret.filename_pattern,
                                                                 Strftime(now),
                                                                 ret.counter + 1))]
    /\ UNCHANGED <<toolVars, cfgVars, now, arg, runVars>>

\* the loop is left (lines 740-775): the path tried does not exist, the
\* report is written there and its path returned, or an exception is
\* recorded and None returned
SearchEnd ==
    LET written(q) == [id |-> FileId(q), mtime |-> now, w |-> TRUE, size |-> 0]
        failed == Append(errors, Error("Error generating CSV report", ret.report_path))
    IN  /\ pc = "report"
        /\ ret.op = "generate_csv_report"
        /\ ~Exists(fs, ret.report_path)
        /\ \E outcome \in ReportOutcomes :
              /\ outcome # "ok" => faults_left > 0
              /\ fs' = IF outcome = "open_fails" THEN fs
                       ELSE (ret.report_path :> written(ret.report_path)) @@ fs
              /\ errors' = IF outcome = "ok" THEN errors ELSE failed
              /\ faults_left' = IF outcome = "ok" THEN faults_left ELSE faults_left - 1
              /\ ret' = [op |-> "returned", counter |-> ret.counter,
                         value |-> IF outcome = "ok" THEN ret.report_path ELSE NoPath]
        /\ pc' = "idle"
        /\ UNCHANGED <<toolVars, cfgVars, now, arg, dry_run, files, idx, results, runs_left,
                       started, runs>>

NextSearch == SearchNext \/ SearchEnd

SpecSearch == InitSearch /\ [][NextSearch]_vars

-----------------------------------------------------------------------------
(* The earlier revision, file_refresher_core.py; its classifier and transform
   (lines 79-119) are those of file_refresher.py *)

\* the outcomes of the system calls of one process_file of the core: how
\* rename and utime end, and whether the platform lets rename replace a file
\* that exists at the target (POSIX) or raises FileExistsError (Windows)
CoreIOs == [rename : {"ok", "Exception"}, replaces : BOOLEAN, utime : {"ok", "Exception"}]

CoreIOsWithin ==
    [n \in 0..MaxFaults |->
        {io \in CoreIOs : Cardinality({k \in {"rename", "utime"} : io[k] # "ok"}) <= n}]

\* scan_directory of the core (lines 50-77): every file of the tree, the CSV
\* files too
core_scan_directory(fsys, order) ==
    [i \in 1..Len(order) |-> FileInfo(Rel(order[i]), fsys[order[i]].size, fsys[order[i]].mtime)]

\* rename_file of the core (lines 137-145): no test for an existing target
\* and none for the length of the name; any exception gives None
core_rename_file(fsys, file_path, new_name, io) ==
    LET new_path == Path(file_path.parent, new_name)
        none(n) == [fs |-> fsys, ret |-> NoPath, faults |-> n]
    IN  IF StrLen(new_name) > MaxNameLen \/ ~Exists(fsys, file_path)
        THEN none(0)
        ELSE IF Exists(fsys, new_path) /\ new_name # file_path.name /\ ~io.replaces
        THEN none(0)
        ELSE IF io.rename # "ok"
        THEN none(1)
        ELSE [fs |-> Renamed(fsys, file_path, new_path), ret |-> new_path, faults |-> 0]

\* update_file_modified_date of the core (lines 121-135) at time t
core_update_file_modified_date(fsys, file_path, t, io) ==
    IF ~Exists(fsys, file_path)
    THEN [fs |-> fsys, ret |-> FALSE, faults |-> 0]
    ELSE IF io.utime # "ok"
    THEN [fs |-> fsys, ret |-> FALSE, faults |-> 1]
    ELSE [fs |-> [fsys EXCEPT ![Resolve(file_path)].mtime = t], ret |-> TRUE, faults |-> 0]

\* process_file of the core (lines 147-177): self.dry_run does not exist in
\* this revision, and args.dry_run is not read after parse_args
core_process_file(fsys, file_info, io) ==
    LET start == [result |-> [original_path |-> file_info.path,
                              new_path |-> file_info.path,
                              original_modified |-> file_info.modified,
                              new_modified |-> file_info.modified,
                              extension |-> WithoutDots(file_info.extension),
                              size_bytes |-> file_info.size,
                              renamed |-> FALSE,
                              date_updated |-> FALSE],
                  fs |-> fsys, file_info |-> file_info, faults |-> 0]
        \* lines 163-169, rn being what rename_file returns
        rename_step(s, decision, rn) ==
            IF ~decision.rename
            THEN s
            ELSE IF rn.ret # NoPath
            THEN [s EXCEPT !.result.new_path = rn.ret,
                           !.result.renamed = TRUE,
                           !.file_info.path = rn.ret,
                           !.fs = rn.fs, !.faults = rn.faults]
            ELSE [s EXCEPT !.fs = rn.fs, !.faults = rn.faults]
        renaming(decision, new_filename) ==
            rename_step(start, decision,
                        core_rename_file(fsys, file_info.path, new_filename, io))
        \* lines 172-175, up being what update_file_modified_date returns
        date_step(s1, up) ==
            IF ~needs_date_update(s1.file_info)
            THEN s1
            ELSE IF up.ret
            THEN [s1 EXCEPT !.result.new_modified = now, !.result.date_updated = TRUE,
                            !.fs = up.fs, !.faults = s1.faults + up.faults]
            ELSE [s1 EXCEPT !.fs = up.fs, !.faults = s1.faults + up.faults]
        dating(s1) ==
            date_step(s1, core_update_file_modified_date(s1.fs, s1.result.new_path, now, io))
        deciding(decision) ==
            renaming(decision, get_new_filename(file_info, decision.reason))
    IN  dating(deciding(needs_rename(file_info)))

\* main of the core up to the loop (lines 193-221) and the scan of
\* process_directory (lines 181-183); --dry-run is parsed into args.dry_run
CoreStart ==
    /\ pc = "idle"
    /\ runs_left > 0
    /\ runs_left' = runs_left - 1
    /\ \E d \in BOOLEAN, order \in Perms(DOMAIN fs) :
          /\ dry_run' = d
          /\ files' = core_scan_directory(fs, order)
          /\ started' = [fs |-> fs, files |-> files']
    /\ idx' = 1
    /\ results' = <<>>
    /\ errors' = <<>>
    /\ pc' = "core_loop"
    /\ UNCHANGED <<toolVars, cfgVars, now, pureVars, fs, faults_left, runs>>

\* one turn of the loop of process_directory (lines 186-189)
CoreProcessNext ==
    LET turn(out) ==
            /\ out.faults <= faults_left
            /\ faults_left' = faults_left - out.faults
            /\ fs' = out.fs
            /\ files' = [files EXCEPT ![idx] = out.file_info]
            /\ results' = Append(results, out.result)
    IN  /\ pc = "core_loop"
        /\ idx <= Len(files)
        /\ \E io \in CoreIOsWithin[faults_left] :
               turn(core_process_file(fs, files[idx], io))
        /\ idx' = idx + 1
        /\ UNCHANGED <<toolVars, cfgVars, now, pureVars, dry_run, pc, errors, runs_left, started, runs>>

\* the end of main of the core (lines 223-230): the summary; this revision
\* writes no report
CoreFinish ==
    /\ pc = "core_loop"
    /\ idx > Len(files)
    /\ runs' = Append(runs, [dry_run |-> dry_run, before |-> started.fs,
                             scanned |-> started.files, results |-> results,
                             errors |-> errors, at |-> now, after |-> fs,
                             report |-> NoPath, ledger |-> <<>>])
    /\ pc' = "idle"
    /\ UNCHANGED <<toolVars, cfgVars, now, pureVars, fs, dry_run, files, idx, results, errors,
                   faults_left, runs_left, started>>

NextCore == CoreStart \/ CoreProcessNext \/ CoreFinish

SpecCore == Init /\ [][NextCore]_vars

-----------------------------------------------------------------------------
(* The pruning tool, file_deletion_tool.py *)

\* _canonical (lines 49-62) of a resolved path: os.path.normcase folds the
\* case on Windows (nt) and nowhere else
canonical(nt, path) ==
    IF nt THEN Path(path.parent, Lower(path.name)) ELSE path

\* the files a tree to prune may hold, and the paths a keep list may name
PrunePaths ==
    {Path("/cwd", <<"a", ".", "P">>), Path("/cwd", <<"b", ".", "P">>),
     Path("/cwd/sub", <<"a", ".", "p">>), Path("/cwd/sub", <<"b", ".", "P">>)}
KeepPaths == PrunePaths \cup {Path("/cwd/sub", <<"A", ".", "P">>)}

\* os.walk(target_root), top down (line 136): the files of the root before
\* those of its subdirectory
Walks(S) ==
    {f \in Perms(S) : \A i, j \in DOMAIN f :
                          (f[i].parent = "/cwd/sub" /\ f[j].parent = "/cwd") => j < i}

\* main up to the call of prune_directory (lines 162-209): the keep set of
\* canonical paths (line 119) and the names of its entries (line 200)
InitPrune ==
    /\ rename_extensions = {}
    /\ days_threshold = 0
    /\ csv_input = NoCsv
    /\ now = MaxMTime
    /\ arg = NoArg
    /\ ret = NoRet
    /\ \E S \in SUBSET PrunePaths :
          fs = [q \in S |-> [id |-> FileId(q), mtime |-> 0, w |-> TRUE,
                             size |-> StrLen(q.name)]]
    /\ \E nt \in BOOLEAN, K \in SUBSET KeepPaths :
          LET keep == {canonical(nt, q) : q \in K}
          IN  prune = [NoPrune EXCEPT !.nt = nt, !.keep = keep,
                                      !.keep_names = {q.name : q \in keep}]
    /\ dry_run = FALSE
    /\ pc = "idle"
    /\ files = <<>>
    /\ idx = 1
    /\ results = <<>>
    /\ errors = <<>>
    /\ started = [fs |-> NoFs, files |-> <<>>]
    /\ runs = <<>>
    /\ runs_left = 1
    /\ faults_left = MaxFaults

\* prune_directory is entered (lines 131-136): the walk
PruneStart ==
    /\ pc = "idle"
    /\ runs_left > 0
    /\ runs_left' = runs_left - 1
    /\ \E order \in Walks(DOMAIN fs) :
          /\ files' = order
          /\ started' = [fs |-> fs, files |-> order]
    /\ idx' = 1
    /\ pc' = "prune_loop"
    /\ UNCHANGED <<toolVars, cfgVars, now, pureVars, fs, dry_run, results, errors,
                   faults_left, runs>>

\* one file of the walk with the test on the file name left out
PruneNextPathOnly ==
    LET kept(p) == canonical(prune.nt, p) \in prune.keep
        counted == [prune EXCEPT !.total_files = @ + 1]
        trashed(p) == [counted EXCEPT !.moved_files = @ + 1,
                                      !.trash = @ \cup {fs[p].id},
                                      !.deleted_rows = Append(@, [path |-> p, error |-> ""])]
        failed(p) == [counted EXCEPT
                         !.deleted_rows = Append(@, [path |-> p, error |-> "Exception"])]
        without(p) == [q \in DOMAIN fs \ {p} |-> fs[q]]
        one(p) ==
            IF kept(p)
            THEN prune' = counted /\ UNCHANGED <<fs, faults_left>>
            ELSE \/ prune' = trashed(p) /\ fs' = without(p) /\ UNCHANGED faults_left
                 \/ /\ faults_left > 0
                    /\ faults_left' = faults_left - 1
                    /\ prune' = failed(p)
                    /\ UNCHANGED fs
    IN  /\ pc = "prune_loop"
        /\ idx <= Len(files)
        /\ one(files[idx])
        /\ idx' = idx + 1
        /\ UNCHANGED <<cfgVars, now, pureVars, dry_run, pc, files, results, errors,
                       runs_left, started, runs>>

\* one file of the walk (lines 137-150): kept when its canonical path is in
\* keep or its name in keep_names, sent to the trash otherwise; the row tells
\* whether send2trash raised
PruneNext ==
    LET kept(p) == canonical(prune.nt, p) \in prune.keep \/ p.name \in prune.keep_names
        counted == [prune EXCEPT !.total_files = @ + 1]
        trashed(p) == [counted EXCEPT !.moved_files = @ + 1,
                                      !.trash = @ \cup {fs[p].id},
                                      !.deleted_rows = Append(@, [path |-> p, error |-> ""])]
        failed(p) == [counted EXCEPT
                         !.deleted_rows = Append(@, [path |-> p, error |-> "Exception"])]
        without(p) == [q \in DOMAIN fs \ {p} |-> fs[q]]
        one(p) ==
            IF kept(p)
            THEN prune' = counted /\ UNCHANGED <<fs, faults_left>>
            ELSE \/ prune' = trashed(p) /\ fs' = without(p) /\ UNCHANGED faults_left
                 \/ /\ faults_left > 0
                    /\ faults_left' = faults_left - 1
                    /\ prune' = failed(p)
                    /\ UNCHANGED fs
    IN  /\ pc = "prune_loop"
        /\ idx <= Len(files)
        /\ one(files[idx])
        /\ idx' = idx + 1
        /\ UNCHANGED <<cfgVars, now, pureVars, dry_run, pc, files, results, errors,
                       runs_left, started, runs>>

\* the report is written (lines 152-159)
PruneReport ==
    /\ pc = "prune_loop"
    /\ idx > Len(files)
    /\ prune' = [prune EXCEPT !.report = [written |-> TRUE, rows |-> prune.deleted_rows]]
    /\ pc' = "pruned"
    /\ UNCHANGED <<cfgVars, now, pureVars, fs, dry_run, files, idx, results, errors,
                   faults_left, runs_left, started, runs>>

NextPrune == PruneStart \/ PruneNext \/ PruneReport

SpecPrune == InitPrune /\ [][NextPrune]_vars

-----------------------------------------------------------------------------
(* The classifier and the transform: C1 .. C5, under SpecPure *)

ArgName == arg.path.name
ArgDotted == date_pattern_dots(ArgName).matched
ArgHyphenated == date_pattern_hyphens(ArgName).matched
ArgInSet == arg.extension \in rename_extensions

C2_AsStated ==
    (ret.op = "needs_rename" /\ ArgDotted) =>
        ret.value = [rename |-> FALSE, reason |-> "already_has_dots"]

\* C2, amended: for every name that matches the dotted pattern needs_rename
\* never asks for a rename; the reason is already_has_dots exactly when the
\* extension is in the rename-extension set, and None exactly when it is not.
C2_DottedNeverRenamed ==
    (ret.op = "needs_rename" /\ ArgDotted) =>
        /\ ~ret.value.rename
        /\ ret.value.reason = "already_has_dots" <=> ArgInSet
        /\ ret.value.reason = "None" <=> ~ArgInSet

\* a dotted name of a listed extension has been classified
C2_Witness ==
    /\ ret.op = "needs_rename"
    /\ ArgDotted /\ ArgInSet
    /\ ret.value.reason = "already_has_dots"

\* C3: needs_date_update is true if and only if now - modified is strictly more
\* than the threshold in days; a file exactly as old as the threshold is not
\* refreshed, and a threshold of 0 refreshes every file modified before now.
C3_StrictThreshold ==
    ret.op = "needs_date_update" =>
        LET age == now - arg.modified
        IN  /\ ret.value <=> age > days_threshold * TicksPerDay
            /\ age = days_threshold * TicksPerDay => ~ret.value
            /\ (days_threshold = 0 /\ arg.modified < now) => ret.value

\* a file exactly as old as a threshold of at least one day has been judged
C3_Witness ==
    /\ ret.op = "needs_date_update"
    /\ days_threshold > 0
    /\ now - arg.modified = days_threshold * TicksPerDay
    /\ ~ret.value

\* C4: for every name that matches the hyphenated pattern, the name produced by
\* get_new_filename(convert_hyphens) parses under the dotted pattern to the
\* (year, month, day, rest) that the hyphenated match produced.
C4_RoundTrip ==
    (ret.op = "get_new_filename" /\ ret.reason = "convert_hyphens" /\ ArgHyphenated) =>
        date_pattern_dots(ret.value) = date_pattern_hyphens(ArgName)

\* a hyphenated name with more than one blank after the date has been converted
C4_Witness ==
    /\ ret.op = "get_new_filename" /\ ret.reason = "convert_hyphens"
    /\ ArgHyphenated
    /\ Len(ret.value) < Len(ArgName)

ArgAddDate == needs_rename(arg) = [rename |-> TRUE, reason |-> "add_date"]

\* C5, as stated: a file classified (True, add_date) gets the name
\* "<D> <original name>" where D is the date of the run, not the date of the
\* file's last modification.
C5_AsStated ==
    (ret.op = "get_new_filename" /\ ret.reason = "add_date" /\ ArgAddDate) =>
        ret.value = Strftime(now) \o <<SP>> \o ArgName

\* C5, amended: a file classified (True, add_date) gets the name
\* "<D> <original name>", the whole original name with its extension, where D
\* is the date of the file's last modification as the descriptor holds it.
C5_PrefixIsModifiedDate ==
    (ret.op = "get_new_filename" /\ ret.reason = "add_date" /\ ArgAddDate) =>
        /\ Len(ret.value) = Len(ArgName) + 11
        /\ SubSeq(ret.value, 1, 10) = Strftime(arg.modified)
        /\ ret.value[11] = SP
        /\ Tail_from(ret.value, 12) = ArgName
        /\ Suffix(ret.value) = Suffix(ArgName)

\* a file last modified on a day before the day of the run has been renamed
C5_Witness ==
    /\ ret.op = "get_new_filename" /\ ret.reason = "add_date" /\ ArgAddDate
    /\ Strftime(now) # Strftime(arg.modified)
    /\ Suffix(ArgName) # <<>>

-----------------------------------------------------------------------------
(* The mutation executor and main: C6 .. C10 *)

\* the file the loop is about to process, and the name and path it would get
Current == files[idx]
CurrentTarget ==
    Path(Current.path.parent, get_new_filename(Current, needs_rename(Current).reason))

\* the loop is about to process, live, a file that needs a rename and whose
\* target path is taken by a file of another name
Collision ==
    /\ pc = "loop" /\ idx <= Len(files)
    /\ ~dry_run
    /\ needs_rename(Current).rename
    /\ Exists(fs, CurrentTarget)
    /\ CurrentTarget.name # Current.path.name

\* C6: in live mode, when a rename is needed and a file of another name exists
\* at the destination, processing the file renames nothing, appends an error
\* that says 'Target file already exists', leaves the file under its original
\* name, yields renamed = False and new_path = original_path, and the loop
\* goes on to the next file.
C6_CollisionSkipsRename ==
    [][(Collision /\ idx' = idx + 1) =>
          LET p == Resolve(Current.path)
              row == results'[idx]
          IN  /\ DOMAIN fs' = DOMAIN fs
              /\ \A q \in DOMAIN fs : fs'[q].id = fs[q].id
              /\ p \in DOMAIN fs'
              /\ Len(errors') > Len(errors)
              /\ errors'[Len(errors) + 1] =
                     Error("Target file already exists", CurrentTarget)
              /\ Len(results') = Len(results) + 1
              /\ ~row.renamed
              /\ row.original_path = p
              /\ row.new_path = row.original_path
              /\ pc' = "loop"]_vars

\* a live run met a collision on its first file and went on to process its
\* second file
C6_Witness ==
    /\ ~dry_run
    /\ Len(results) = 2
    /\ needs_rename(started.files[1]).rename
    /\ ~results[1].renamed
    /\ errors # <<>>
    /\ errors[1].msg = "Target file already exists"
    /\ results[1].original_path \in DOMAIN fs

\* the files of a tree that scan_directory reports
Scannable(fsys) ==
    LET kept == {q \in DOMAIN fsys : Lower(Suffix(q.name)) # <<".", "c", "s", "v">>}
    IN  [q \in kept |-> fsys[q]]

RowsAgree(a, b) ==
    /\ a.new_path = b.new_path
    /\ a.renamed = b.renamed
    /\ a.date_updated = b.date_updated
    /\ a.new_modified = b.new_modified

\* C7: a dry run and a live run that start from the same tree, with the same
\* file list, at the same time, produce ledgers of the same number of rows
\* whose rows agree on new_path, renamed, date_updated and new_modified, also
\* when a rename target exists already or two files map to the same target.
C7_DryRunLedgerIsLiveLedger ==
    \A j, k \in DOMAIN runs :
        (/\ runs[j].dry_run /\ ~runs[k].dry_run
         /\ Scannable(runs[j].before) = Scannable(runs[k].before)
         /\ runs[j].scanned = runs[k].scanned
         /\ runs[j].at = runs[k].at) =>
            /\ Len(runs[j].results) = Len(runs[k].results)
            /\ \A i \in DOMAIN runs[j].results :
                   RowsAgree(runs[j].results[i], runs[k].results[i])

\* the files of the tree `before' are in the tree `after' under the same
\* names, with the same modification times and permission bits
SameFiles(before, after) ==
    /\ \A q \in DOMAIN before : q \in DOMAIN after /\ after[q] = before[q]
    /\ \A q \in DOMAIN after \ DOMAIN before :
           \A p \in DOMAIN before : after[q].id # before[p].id

\* C8: a dry run renames nothing, updates no timestamp and changes no
\* permission: while it runs and when it has ended, the names, the
\* modification times and the permission bits of the files it found are the
\* same, and the only file the tree has gained is the report.
C8_DryRunLeavesTree ==
    /\ (pc = "loop" /\ dry_run) => fs = started.fs
    /\ \A k \in DOMAIN runs :
           runs[k].dry_run =>
               /\ SameFiles(runs[k].before, runs[k].after)
               /\ Cardinality(DOMAIN runs[k].after \ DOMAIN runs[k].before) <= 1

\* a dry run has ended that reported a rename and a date update for a file
\* without write permission
C8_Witness ==
    \E k \in DOMAIN runs :
        /\ runs[k].dry_run
        /\ \E i \in DOMAIN runs[k].results :
               LET row == runs[k].results[i]
               IN  /\ row.renamed /\ row.date_updated
                   /\ ~runs[k].before[row.original_path].w

\* C9: of two live runs over the same directory in direct succession, the
\* second renames nothing: every row of its ledger has renamed = False,
\* whatever the first did (renames, collisions, names too long).
C9_SecondPassRenamesNothing ==
    \A k \in DOMAIN runs :
        (k > 1 /\ ~runs[k - 1].dry_run /\ ~runs[k].dry_run
               /\ runs[k].before = runs[k - 1].after) =>
            \A i \in DOMAIN runs[k].results : ~runs[k].results[i].renamed

\* the rows of a ledger are those of the file list, one each, in its order
OneRowEach(scanned, ledger) ==
    /\ Len(ledger) <= Len(scanned)
    /\ \A i \in DOMAIN ledger :
           /\ ledger[i].original_path = Resolve(scanned[i].path)
           /\ ledger[i].original_modified = scanned[i].modified
           /\ ledger[i].size_bytes = scanned[i].size

\* C10: main's loop yields exactly one result for every file of the list, in
\* the order of the list, whatever fails for a file (collision, name too
\* long, permission denied, OS error): after each turn the results are those
\* of the files processed so far, the loop is at the next file, and a run
\* ends with as many results as the list has files.
C10_OneResultPerFile ==
    /\ pc = "loop" =>
           /\ Len(results) = idx - 1
           /\ OneRowEach(started.files, results)
    /\ \A k \in DOMAIN runs :
           /\ Len(runs[k].results) = Len(runs[k].scanned)
           /\ OneRowEach(runs[k].scanned, runs[k].results)

\* a live run has ended in which the rename of the first file failed with an
\* error of the operating system and the second file was processed all the same
C10_Witness ==
    \E k \in DOMAIN runs :
        /\ ~runs[k].dry_run
        /\ Len(runs[k].results) = 2
        /\ runs[k].errors # <<>>
        /\ runs[k].errors[1].msg \in {"Permission denied renaming", "OS error renaming"}
        /\ runs[k].errors[1].path = runs[k].scanned[1].path
        /\ ~runs[k].results[1].renamed

-----------------------------------------------------------------------------
(* The result flags: C11 *)

\* the loop takes a turn of a live run
LiveTurn == pc = "loop" /\ idx <= Len(files) /\ ~dry_run /\ idx' = idx + 1

\* C11: in a live run the flags of a result say what happened: renamed is
\* true only if the file was moved to new_path by a rename that succeeded,
\* date_updated is true only if the modification time of the file was set;
\* a step that failed or was skipped leaves its flag false, and new_path,
\* new_modified at original_path, original_modified.
C11_FlagsRecordWhatHappened ==
    [][LiveTurn =>
          LET row == results'[idx]
              p == row.original_path
          IN  /\ row.renamed =>
                     /\ row.new_path # p
                     /\ p \notin DOMAIN fs'
                     /\ row.new_path \notin DOMAIN fs
                     /\ row.new_path \in DOMAIN fs'
                     /\ fs'[row.new_path].id = fs[p].id
              /\ ~row.renamed =>
                     /\ row.new_path = p
                     /\ p \in DOMAIN fs'
                     /\ fs'[p].id = fs[p].id
              /\ row.date_updated =>
                     /\ row.new_modified = now
                     /\ fs'[row.new_path].mtime = now
              /\ ~row.date_updated =>
                     /\ row.new_modified = row.original_modified
                     /\ fs'[row.new_path].mtime = fs[p].mtime]_vars

\* a live run in which the rename of the first file failed for the operating
\* system and its date was refreshed, and the second file was renamed
C11_Witness ==
    /\ ~dry_run
    /\ Len(results) = 2
    /\ needs_rename(started.files[1]).rename
    /\ ~results[1].renamed
    /\ results[1].date_updated
    /\ errors # <<>>
    /\ errors[1].msg \in {"Permission denied renaming", "OS error renaming"}
    /\ results[2].renamed

-----------------------------------------------------------------------------
(* The name of the report: C12 *)

\* main ends a run: generate_csv_report is called
ReportStep == pc = "loop" /\ pc' = "idle"

\* C12: generate_csv_report overwrites no file: every file of the tree is
\* left as it was, the report goes to a path that did not exist, under the
\* name of the day if that is free and otherwise under the name with the
\* smallest counter k >= 1, in two digits after the date, that is free; the
\* reports of successive runs are at pairwise distinct paths.
C12_ReportNeverOverwrites ==
    [][ReportStep =>
          LET rep == runs'[Len(runs')].report
              tried(k) == Path("/cwd", versioned_filename(Strftime(now), k))
          IN  /\ \A q \in DOMAIN fs : q \in DOMAIN fs' /\ fs'[q] = fs[q]
              /\ rep # NoPath =>
                     /\ rep \notin DOMAIN fs
                     /\ rep \in DOMAIN fs'
                     /\ \E k \in 0..99 :
                            /\ rep = tried(k)
                            /\ \A j \in 0..(k - 1) : tried(j) \in DOMAIN fs
                     /\ \A j \in DOMAIN runs : runs[j].report # rep]_vars

\* two runs of one day found the report of an earlier run of that day: the
\* second wrote its report under the counter 02
C12_Witness ==
    \E k \in DOMAIN runs :
        /\ k > 1
        /\ runs[k].report = Path("/cwd", versioned_filename(Strftime(runs[k].at), 2))
        /\ runs[k - 1].report = Path("/cwd", versioned_filename(Strftime(runs[k].at), 1))

-----------------------------------------------------------------------------
(* Replay: C13 .. C16, under SpecReplay *)

\* the ledger was opened and read to its end, and the loop has not started
Loaded == pc = "loop" /\ idx = 1 /\ csv_input.given /\ faults_left = MaxFaults

\* a row whose file exists and whose two timestamps parse
Accepted(fsys, row) ==
    /\ Exists(fsys, row.new_path)
    /\ ParseStamp(row.original_modified).ok
    /\ ParseStamp(row.new_modified).ok

\* a row that is accepted and whose size is a number
WellFormed(fsys, row) == Accepted(fsys, row) /\ ParseInt(row.size_bytes).ok

\* C13: of a ledger that has every column, a row is rejected exactly when its
\* file does not exist or one of its two timestamps does not parse; every
\* row that is rejected or malformed adds an error and is skipped, and the
\* descriptors loaded are those of the other rows, in the order of the rows.
C13_ValidRowsLoaded ==
    (Loaded /\ csv_input.missing = {}) =>
        LET valid == SelectSeq(csv_input.rows, LAMBDA r : WellFormed(fs, r))
        IN  /\ Len(files) = Len(valid)
            /\ \A i \in DOMAIN files : files[i].path = valid[i].new_path
            /\ Len(errors) = Len(csv_input.rows) - Len(valid)

\* the ways to pick, in their order, n rows of a ledger of m rows
Picks(n, m) == {f \in [1..n -> 1..m] : \A i, j \in 1..n : i < j => f[i] < f[j]}

\* C14: every descriptor a replay loads is that of a row of the ledger, in the
\* order of the rows: its path is the row's new_path and its modifiedAt the
\* row's original_modified, whatever the modification time of the file on
\* disk; whether the date is refreshed is decided on that value, and the row
\* the run writes for the file carries the original_modified of the input row.
C14_ReplayKeepsOriginalModified ==
    \A k \in DOMAIN runs :
        LET run == runs[k]
            rows == csv_input.rows
        IN  csv_input.given =>
              \E f \in Picks(Len(run.scanned), Len(rows)) :
                \A i \in DOMAIN run.scanned :
                    /\ run.scanned[i].path = rows[f[i]].new_path
                    /\ ParseStamp(rows[f[i]].original_modified) =
                           [ok |-> TRUE, value |-> run.scanned[i].modified]
                    /\ run.results[i].original_modified = run.scanned[i].modified
                    /\ run.results[i].date_updated => needs_date_update(run.scanned[i])
                    /\ run.dry_run =>
                           (run.results[i].date_updated <=> needs_date_update(run.scanned[i]))
                    /\ run.report # NoPath =>
                           run.ledger[i].original_modified = rows[f[i]].original_modified

\* a replay has ended that refreshed the date of a file which by its time on
\* disk was not stale, and wrote the original_modified of the input row
C14_Witness ==
    \E k \in DOMAIN runs :
        /\ csv_input.given
        /\ ~runs[k].dry_run
        /\ runs[k].report # NoPath
        /\ Len(runs[k].scanned) = 2
        /\ LET d == runs[k].scanned[1]
               onDisk == runs[k].before[Resolve(d.path)].mtime
           IN  /\ onDisk # d.modified
               /\ ~needs_date_update([modified |-> onDisk])
               /\ runs[k].results[1].date_updated
               /\ runs[k].ledger[1].original_modified = FormatStamp(d.modified)
               /\ runs[k].ledger[1].original_modified # FormatStamp(onDisk)

\* the header of the ledger lacks a column, or opening the ledger raised
Unusable ==
    /\ csv_input.given
    /\ \/ csv_input.missing # {}
       \/ pc = "loop" /\ idx = 1 /\ faults_left < MaxFaults

\* C15: when the ledger to replay lacks a required column or cannot be read,
\* the run is abandoned: no file is processed and no report is written.
C15_UnusableLedgerIsFatal ==
    /\ (Unusable /\ pc = "loop") => files = <<>>
    /\ \A k \in DOMAIN runs :
           (csv_input.given /\ csv_input.missing # {}) =>
               /\ runs[k].results = <<>>
               /\ runs[k].report = NoPath

\* a name with the extension .csv
IsCsv(name) == Lower(Suffix(name)) = <<".", "c", "s", "v">>

\* C16: no run renames a file whose extension is .csv or tries to, whatever
\* its age, the rename extensions configured and the input mode: no result
\* for such a file is marked renamed or carries another path, no rename
\* error names such a file, and every CSV file the run found is still there.
C16_CsvNeverRenamed ==
    /\ \A i \in DOMAIN results :
           IsCsv(results[i].original_path.name) =>
               /\ ~results[i].renamed
               /\ results[i].new_path = results[i].original_path
    /\ \A i \in DOMAIN errors :
           errors[i].msg \in {"Target file already exists", "Filename too long",
                              "Permission denied renaming", "OS error renaming"} =>
               ~IsCsv(errors[i].path.name)
    /\ pc = "loop" =>
           \A q \in DOMAIN started.fs : IsCsv(q.name) => q \in DOMAIN fs

-----------------------------------------------------------------------------
(* The earlier revision: C17, under SpecCore *)

\* C17: a run of file_refresher_core.py with --dry-run renames no file and
\* changes no modification time: while it runs and when it has ended the
\* tree is the one it found.
C17_CoreDryRunLeavesTree ==
    /\ (pc = "core_loop" /\ dry_run) => fs = started.fs
    /\ \A k \in DOMAIN runs : runs[k].dry_run => runs[k].after = runs[k].before

-----------------------------------------------------------------------------
(* The pruning tool: C18, under SpecPrune *)

\* a file of the tree that prune_directory is to keep
Kept(p) == canonical(prune.nt, p) \in prune.keep
               \/ \E q \in prune.keep : q.name = p.name

\* the rows written so far for the file at path p
RowsFor(p) == {i \in DOMAIN prune.deleted_rows : prune.deleted_rows[i].path = p}

-----------------------------------------------------------------------------
(* The order of the two steps: C19, under Spec *)

RenameErrors == {"Target file already exists", "Filename too long",
                 "Permission denied renaming", "OS error renaming"}
DateErrors == {"Cannot modify read-only file", "Permission denied updating",
               "Error updating date for"}

\* C19: in a turn of a live run the rename step has its outcome before the
\* date step starts, the date step is taken whatever that outcome, and each
\* step is tried at most once: the turn adds at most one rename error and
\* then at most one date error; a file that is stale has its time set or a
\* date error recorded, at the renamed path when the rename succeeded and at
\* the original path otherwise; a file that is not stale is left alone.
C19_RenameThenDate ==
    [][LiveTurn =>
          LET row == results'[idx]
              added == SubSeq(errors', Len(errors) + 1, Len(errors'))
              target == IF row.renamed THEN Resolve(CurrentTarget)
                        ELSE Resolve(Current.path)
              dateErrors == {i \in DOMAIN added : added[i].msg \in DateErrors}
          IN  /\ Len(added) <= 2
              /\ \A i \in DOMAIN added :
                     /\ added[i].msg \in RenameErrors => i = 1 /\ ~row.renamed
                     /\ added[i].msg \in DateErrors =>
                            i = Len(added) /\ added[i].path = target
              /\ Len(added) = 2 => added[1].msg \in RenameErrors
              /\ row.new_path = target
              /\ needs_date_update(Current) =>
                     \/ row.date_updated /\ dateErrors = {}
                           /\ target \in DOMAIN fs' /\ fs'[target].mtime = now
                     \/ ~row.date_updated /\ dateErrors # {}
              /\ ~needs_date_update(Current) =>
                     /\ ~row.date_updated
                     /\ dateErrors = {}
                     /\ fs'[target].mtime = fs[Resolve(Current.path)].mtime]_vars

\* a live run in which the rename of the first file failed and its date was
\* refreshed under its original name, and the second file was renamed and
\* its date refreshed under its new name
C19_Witness ==
    /\ ~dry_run
    /\ Len(results) = 2
    /\ errors # <<>>
    /\ errors[1].msg \in RenameErrors
    /\ ~results[1].renamed
    /\ results[1].date_updated
    /\ fs[results[1].original_path].mtime = now
    /\ results[2].renamed
    /\ results[2].date_updated
    /\ results[2].new_path # results[2].original_path
    /\ fs[results[2].new_path].mtime = now

-----------------------------------------------------------------------------
(* The destination that is the source: C20, under SpecRename *)

-----------------------------------------------------------------------------
(* The name too long: C21, under Spec *)

\* the loop takes a turn of a live run on a file that needs a rename and
\* whose new name is longer than MaxNameLen
TooLongTurn ==
    /\ LiveTurn
    /\ needs_rename(Current).rename
    /\ StrLen(CurrentTarget.name) > MaxNameLen

\* what the turn does with such a file, msgs being the messages the rename
\* step may record: one error of msgs about the file, no rename, the row not
\* renamed; then the date step at the original path, and the loop goes on
TooLongSkipped(msgs) ==
    LET row == results'[idx]
        p == Resolve(Current.path)
        added == SubSeq(errors', Len(errors) + 1, Len(errors'))
    IN  /\ Len(added) \in {1, 2}
        /\ added[1].msg \in msgs
        /\ added[1].path = Current.path
        /\ ~row.renamed
        /\ row.new_path = p
        /\ DOMAIN fs' = DOMAIN fs
        /\ fs'[p].id = fs[p].id
        /\ needs_date_update(Current) =>
               \/ row.date_updated /\ fs'[p].mtime = now /\ Len(added) = 1
               \/ ~row.date_updated /\ Len(added) = 2 /\ added[2].msg \in DateErrors
        /\ ~needs_date_update(Current) =>
               ~row.date_updated /\ Len(added) = 1 /\ fs'[p].mtime = fs[p].mtime
        /\ Len(results') = idx
        /\ pc' = "loop"

-----------------------------------------------------------------------------
(* What the conversion keeps of the name: C22, under SpecPure *)

\* get_new_filename(convert_hyphens) has been applied to a hyphenated name
Converted == ret.op = "get_new_filename" /\ ret.reason = "convert_hyphens" /\ ArgHyphenated

\* the ways to read a name as a date of ten characters, k whitespace
\* characters, n characters without a newline, and nothing more or one
\* newline
Readings(name) ==
    {kn \in (1..Len(name)) \X (1..Len(name)) :
        /\ 10 + kn[1] + kn[2] \in {Len(name), Len(name) - 1}
        /\ \A i \in 11..(10 + kn[1]) : name[i] \in {SP, TAB, NL}
        /\ \A i \in (11 + kn[1])..(10 + kn[1] + kn[2]) : name[i] # NL
        /\ 10 + kn[1] + kn[2] = Len(name) - 1 => name[Len(name)] = NL}

\* C22 as stated: the converted name is the original name with the two
\* hyphens of the date turned into dots and every other character, the
\* whitespace after the date included, as it was.
C22_OnlySeparatorsChange ==
    Converted =>
        /\ Len(ret.value) = Len(ArgName)
        /\ \A i \in 1..Len(ArgName) :
               ret.value[i] = IF i \in {5, 8} THEN "." ELSE ArgName[i]

\* C22: the converted name is the date with its two hyphens turned into
\* dots, one blank, and the remainder verbatim; the remainder is what
\* follows the longest run of whitespace after the date that leaves it
\* non-empty, up to the end of the name or to a newline that ends the name.
\* The whitespace after the date is not kept unless it is one blank, and a
\* newline that ends the name is dropped.
C22_DateBlankRemainder ==
    Converted =>
        \E kn \in Readings(ArgName) :
            /\ \A other \in Readings(ArgName) : other[1] <= kn[1]
            /\ Len(ret.value) = 11 + kn[2]
            /\ \A i \in 1..10 : ret.value[i] = IF i \in {5, 8} THEN "." ELSE ArgName[i]
            /\ ret.value[11] = SP
            /\ \A i \in 1..kn[2] : ret.value[11 + i] = ArgName[10 + kn[1] + i]
            /\ (kn[1] = 1 /\ ArgName[11] = SP /\ 11 + kn[2] = Len(ArgName)) =>
                   \A i \in 1..Len(ArgName) :
                       ret.value[i] = IF i \in {5, 8} THEN "." ELSE ArgName[i]

\* a hyphenated name with a tab and a blank after the date has been converted
C22_Witness ==
    /\ Converted
    /\ ArgName = HyphenDate \o <<TAB, SP, "a", ".", "P">>
    /\ ret.value = DottedDate \o <<SP, "a", ".", "P">>

-----------------------------------------------------------------------------
(* The write permission granted for the update: C23, under Spec *)

\* C23: the owner-write permission update_file_modified_date grants to a
\* file that is not writable is temporary. After a turn of a live run whose
\* date step did not set the time (it failed or was not taken) the file is
\* as writable as it was before; after one that set the time it is as
\* writable as before unless the restoring chmod failed, which leaves a
\* file that was not writable writable; and when the grant itself failed
\* ('Cannot modify read-only file') no time was written and date_updated
\* is false.
C23_GrantIsTemporary ==
    [][LiveTurn =>
          LET row == results'[idx]
              was == fs[Resolve(Current.path)]
              is == fs'[row.new_path]
              added == SubSeq(errors', Len(errors) + 1, Len(errors'))
          IN  /\ ~row.date_updated => is.w = was.w
              /\ row.date_updated => (is.w = was.w \/ (~was.w /\ is.w))
              /\ (\E i \in DOMAIN added : added[i].msg = "Cannot modify read-only file") =>
                     ~row.date_updated /\ is.mtime = was.mtime /\ is.w = was.w]_vars

-----------------------------------------------------------------------------
(* Ctrl-C: C24, under SpecInterrupt *)

\* the file of the tree the run started with that row i is about
Origin(i) == started.fs[results[i].original_path]

\* C24: when a run has been interrupted while its files were processed, what
\* it did to the files before the one it was at stays: a file it renamed is
\* at its new path and no longer at the old one, a file whose time it set
\* has that time; the files after the one it was at are as the run found
\* them; and the run wrote no report: the tree holds no file but those the
\* run found, under their old or new names, and no run is recorded.
C24_InterruptKeepsCommitted ==
    pc = "cancelled" =>
        /\ idx = Len(results) + 1
        /\ \A i \in DOMAIN results :
               LET row == results[i]
               IN  IF dry_run
                   THEN fs[row.original_path] = Origin(i)
                   ELSE /\ row.new_path \in DOMAIN fs
                        /\ fs[row.new_path].id = Origin(i).id
                        /\ row.renamed => row.original_path \notin DOMAIN fs
                        /\ fs[row.new_path].mtime = row.new_modified
                        /\ row.date_updated => fs[row.new_path].mtime = now
        /\ \A j \in (idx + 1)..Len(files) :
               LET q == Resolve(files[j].path)
               IN  q \in DOMAIN fs /\ fs[q] = started.fs[q]
        /\ \A q \in DOMAIN fs : \E p \in DOMAIN started.fs : fs[q].id = started.fs[p].id
        /\ Cardinality(DOMAIN fs) = Cardinality(DOMAIN started.fs)
        /\ runs = <<>>

\* a live run interrupted at its second file, after it had renamed the first
\* and set its time, and before it touched the second, which needs a rename
C24_Witness ==
    /\ pc = "cancelled"
    /\ ~dry_run
    /\ Len(files) = 2
    /\ Len(results) = 1
    /\ results[1].renamed
    /\ results[1].date_updated
    /\ results[1].new_path \in DOMAIN fs
    /\ fs[results[1].new_path].mtime = now
    /\ needs_rename(files[2]).rename
    /\ fs[Resolve(files[2].path)] = started.fs[Resolve(files[2].path)]

-----------------------------------------------------------------------------
(* The extension of a descriptor: C25, under SpecLedger *)

\* C25: at every point of a run the extension of every descriptor, scanned
\* or loaded from a ledger, renamed or not, is the lower-cased suffix of the
\* name its path ends in, the dot included, and empty when the name has no
\* suffix; a descriptor written to a ledger and loaded back has the
\* extension it had.
C25_ExtensionFollowsPath ==
    \A i \in DOMAIN files : files[i].extension = Lower(Suffix(files[i].path.name))

-----------------------------------------------------------------------------
(* The error list: C26, under SpecModes *)

\* main has loaded the ledger and is about to start its loop
LoadStep == pc = "idle" /\ pc' = "loop" /\ csv_input.given

RowErrors == {"File not found in CSV", "Invalid date format in CSV for"}

\* what load_csv_file_list leaves in the error list errs and returns as fl:
\* one entry for each row rejected, in the order of the rows, and after them
\* at most one entry for an exception that ended the load, which then
\* returned no descriptor
LoadRecorded(errs, fl) ==
    LET rejected == SelectSeq(csv_input.rows, LAMBDA r : ~Accepted(fs, r))
        perRow == SelectSeq(errs, LAMBDA e : e.msg \in RowErrors)
        ended == SelectSeq(errs, LAMBDA e : e.msg = "Error loading CSV file")
    IN  /\ Len(errs) = Len(perRow) + Len(ended)
        /\ Len(ended) <= 1
        /\ Len(perRow) <= Len(rejected)
        /\ \A j \in DOMAIN perRow : /\ errs[j] = perRow[j]
                                   /\ perRow[j].path = rejected[j].new_path
        /\ Len(ended) = 0 =>
               /\ Len(perRow) = Len(rejected)
               /\ Len(fl) + Len(rejected) = Len(csv_input.rows)
        /\ Len(ended) = 1 => fl = <<>>

\* what a turn of a live run adds to the error list: one entry for a rename
\* that was needed and failed, then one for a date update that was needed
\* and failed, and nothing for a step that succeeded or was not needed; the
\* row of the file is returned all the same
TurnRecorded ==
    LET row == results'[idx]
        added == SubSeq(errors', Len(errors) + 1, Len(errors'))
        renameFailed == needs_rename(Current).rename /\ ~row.renamed
        dateFailed == needs_date_update(Current) /\ ~row.date_updated
    IN  /\ Len(results') = idx
        /\ Len(added) = (IF renameFailed THEN 1 ELSE 0) + (IF dateFailed THEN 1 ELSE 0)
        /\ renameFailed => added[1].msg \in RenameErrors
        /\ dateFailed => added[Len(added)].msg \in DateErrors

-----------------------------------------------------------------------------
(* The new name is a dated name: C27, under SpecPure *)

\* get_new_filename has been applied to a file that needs a rename, with the
\* reason needs_rename gave
NewNameComputed ==
    /\ ret.op = "get_new_filename"
    /\ needs_rename(arg).rename
    /\ ret.reason = needs_rename(arg).reason

\* C27: whenever needs_rename asks for a rename, the name get_new_filename
\* computes matches the dotted pattern and is not the original name, so that
\* the file under its new name is classified already_has_dots, and the
\* branch of rename_file for a target named like the source is not taken.
C27_NewNameIsDotted ==
    NewNameComputed =>
        /\ ret.value # ArgName
        /\ date_pattern_dots(ret.value).matched
        /\ needs_rename(FileInfo(Path(arg.path.parent, ret.value), arg.size, arg.modified))
               = [rename |-> FALSE, reason |-> "already_has_dots"]

-----------------------------------------------------------------------------
(* The shape of a result: C28, under SpecLinks *)

\* the loop takes a turn, of a live run or of a dry run
AnyTurn == pc = "loop" /\ idx <= Len(files) /\ idx' = idx + 1

\* C28: every result, of a live run or of a dry run, has new_path equal to
\* original_path when renamed is false, new_path in the directory of
\* original_path under another name when renamed is true, and new_modified
\* equal to original_modified when date_updated is false; its original_path,
\* original_modified and size_bytes are the path, made absolute, the
\* modification time and the size of the descriptor when the turn started.
C28_ResultShape ==
    [][AnyTurn =>
          LET row == results'[idx]
          IN  /\ ~row.renamed => row.new_path = row.original_path
              /\ row.renamed =>
                     /\ row.new_path.parent = row.original_path.parent
                     /\ row.new_path.name # row.original_path.name
              /\ ~row.date_updated => row.new_modified = row.original_modified
              /\ row.original_path = Resolve(Current.path)
              /\ row.original_modified = Current.modified
              /\ row.size_bytes = Current.size]_vars

-----------------------------------------------------------------------------
(* No file is lost to a rename: C29, under SpecCore *)

\* C29: no step of a run replaces or destroys a file: every file content
\* the tree holds before a step is in the tree after it, under its old name
\* or a new one; and so whatever a run found is there when it ends. Stated
\* for file_refresher.py and for file_refresher_core.py.
C29_NoFileLost ==
    [][\A p \in DOMAIN fs : \E q \in DOMAIN fs' : fs'[q].id = fs[p].id]_vars

-----------------------------------------------------------------------------
(* The search for a free report name ends: C30, under SpecSearch *)

\* C30: whatever the configured filename_pattern and whatever files the
\* report directory holds, the search of generate_csv_report for a free name
\* ends: every turn of its loop finds one more file of the directory in its
\* way, so the counter never passes the number of files the directory
\* holds; and when the search has ended the report is written under the
\* path returned or None is returned and an error recorded.
C30_SearchEnds ==
    /\ ret.op = "generate_csv_report" => ret.counter <= Cardinality(DOMAIN fs)
    /\ ret.op = "returned" =>
           \/ ret.value # NoPath /\ ret.value \in DOMAIN fs /\ errors = <<>>
           \/ ret.value = NoPath /\ errors # <<>>

====
